---- MODULE Spec2Model ----
(***************************************************************************)
(* rs-sql-indent: the lexer (src/src/lexer.rs), the keyword table          *)
(* (src/src/token.rs), the shared formatter driver (src/src/formatter/     *)
(* mod.rs) and the layout engines Basic, Dataops and Aligned               *)
(* (src/src/formatter/{basic,dataops,aligned}.rs).  The fourth engine,     *)
(* Streamline (formatter/streamline.rs), follows the block-indented policy *)
(* of the Basic engine with its own indent unit.                           *)
(*                                                                         *)
(* Text is a sequence of bytes.  An ASCII byte is the one-character string *)
(* of its character; a non-ASCII byte is named by its hexadecimal value    *)
(* ("xC3").  Positions are the 0-based byte offsets of the Rust code; the  *)
(* byte at offset p of a text b is b[p + 1].                               *)
(***************************************************************************)
EXTENDS Integers, Sequences, FiniteSets, TLC

\* ------------------------------------------------------------------ bytes

UpperLetters ==
  <<"A","B","C","D","E","F","G","H","I","J","K","L","M",
    "N","O","P","Q","R","S","T","U","V","W","X","Y","Z">>

LowerLetters ==
  <<"a","b","c","d","e","f","g","h","i","j","k","l","m",
    "n","o","p","q","r","s","t","u","v","w","x","y","z">>

Range(s) == {s[i] : i \in DOMAIN s}

AsciiUpper == Range(UpperLetters)

AsciiLower == Range(LowerLetters)

AsciiAlpha == AsciiUpper \cup AsciiLower

AsciiDigit == {"0","1","2","3","4","5","6","7","8","9"}

AsciiAlnum == AsciiAlpha \cup AsciiDigit

\* u8::is_ascii_whitespace: space, tab, line feed, form feed, carriage return
AsciiWhitespace == {" ", "\t", "\n", "\f", "\r"}

\* the bytes 0x80..0xBF that continue a multi-byte UTF-8 character
ContinuationBytes ==
  {"x80", "x81", "x82", "x83", "x84", "x85", "x86", "x87",
   "x88", "x89", "x8A", "x8B", "x8C", "x8D", "x8E", "x8F",
   "x90", "x91", "x92", "x93", "x94", "x95", "x96", "x97",
   "x98", "x99", "x9A", "x9B", "x9C", "x9D", "x9E", "x9F",
   "xA0", "xA1", "xA2", "xA3", "xA4", "xA5", "xA6", "xA7",
   "xA8", "xA9", "xAA", "xAB", "xAC", "xAD", "xAE", "xAF",
   "xB0", "xB1", "xB2", "xB3", "xB4", "xB5", "xB6", "xB7",
   "xB8", "xB9", "xBA", "xBB", "xBC", "xBD", "xBE", "xBF"}

\* the bytes 0xC2..0xF4 that start a multi-byte UTF-8 character of a &str
LeadBytes ==
  {"xC2", "xC3", "xC4", "xC5", "xC6", "xC7", "xC8", "xC9",
   "xCA", "xCB", "xCC", "xCD", "xCE", "xCF", "xD0", "xD1",
   "xD2", "xD3", "xD4", "xD5", "xD6", "xD7", "xD8", "xD9",
   "xDA", "xDB", "xDC", "xDD", "xDE", "xDF", "xE0", "xE1",
   "xE2", "xE3", "xE4", "xE5", "xE6", "xE7", "xE8", "xE9",
   "xEA", "xEB", "xEC", "xED", "xEE", "xEF", "xF0", "xF1",
   "xF2", "xF3", "xF4"}

NonAscii == ContinuationBytes \cup LeadBytes

to_ascii_lowercase(c) ==
  IF c \in AsciiUpper
    THEN LowerLetters[CHOOSE i \in DOMAIN UpperLetters : UpperLetters[i] = c]
    ELSE c

to_lowercase(s) == [i \in DOMAIN s |-> to_ascii_lowercase(s[i])]

eq_ignore_ascii_case(a, b) ==
  /\ Len(a) = Len(b)
  /\ \A i \in DOMAIN a : to_ascii_lowercase(a[i]) = to_ascii_lowercase(b[i])

\* ----------------------------------------------------------- token model

SingleKeywords ==
  {"Select", "From", "Where", "And", "Or", "Not",
   "In", "Between", "Like", "Is", "Null", "As",
   "On", "Join", "Having", "Limit", "Offset", "Union",
   "Intersect", "Except", "Insert", "Into", "Values", "Update",
   "Set", "Delete", "Distinct", "All", "Asc", "Desc",
   "Case", "When", "Then", "Else", "End", "Exists",
   "Any", "With", "Recursive", "Returning", "Using", "Natural",
   "Fetch", "For", "Window", "Over", "Partition", "Rows",
   "Range", "Unbounded", "Preceding", "Following", "Current", "Row",
   "Order", "Group", "Left", "Right", "Inner", "Outer",
   "Full", "Cross", "Create", "Alter", "Drop", "Table",
   "Index", "View", "Column", "Add", "Primary", "Key",
   "Foreign", "References", "Unique", "Default", "Check", "Constraint",
   "Cascade", "Restrict", "If", "Temporary", "Temp", "Schema",
   "Database", "Sequence", "Trigger", "Function", "Procedure", "Type",
   "Enum", "Grant", "Revoke", "Truncate", "Rename", "Replace",
   "Comment", "True", "False", "Begin", "Commit", "Rollback",
   "Savepoint", "Transaction", "Lock", "Unlock"}

MultiKeywords ==
  {"OrderBy", "GroupBy", "LeftJoin", "RightJoin", "InnerJoin", "OuterJoin",
   "FullJoin", "CrossJoin", "UnionAll", "PrimaryKey", "ForeignKey", "IfExists",
   "IfNotExists", "RowsBetween", "RangeBetween"}

as_str ==
  [Select |-> <<"S","E","L","E","C","T">>,
   From |-> <<"F","R","O","M">>,
   Where |-> <<"W","H","E","R","E">>,
   And |-> <<"A","N","D">>,
   Or |-> <<"O","R">>,
   Not |-> <<"N","O","T">>,
   In |-> <<"I","N">>,
   Between |-> <<"B","E","T","W","E","E","N">>,
   Like |-> <<"L","I","K","E">>,
   Is |-> <<"I","S">>,
   Null |-> <<"N","U","L","L">>,
   As |-> <<"A","S">>,
   On |-> <<"O","N">>,
   Join |-> <<"J","O","I","N">>,
   Having |-> <<"H","A","V","I","N","G">>,
   Limit |-> <<"L","I","M","I","T">>,
   Offset |-> <<"O","F","F","S","E","T">>,
   Union |-> <<"U","N","I","O","N">>,
   Intersect |-> <<"I","N","T","E","R","S","E","C","T">>,
   Except |-> <<"E","X","C","E","P","T">>,
   Insert |-> <<"I","N","S","E","R","T">>,
   Into |-> <<"I","N","T","O">>,
   Values |-> <<"V","A","L","U","E","S">>,
   Update |-> <<"U","P","D","A","T","E">>,
   Set |-> <<"S","E","T">>,
   Delete |-> <<"D","E","L","E","T","E">>,
   Distinct |-> <<"D","I","S","T","I","N","C","T">>,
   All |-> <<"A","L","L">>,
   Asc |-> <<"A","S","C">>,
   Desc |-> <<"D","E","S","C">>,
   Case |-> <<"C","A","S","E">>,
   When |-> <<"W","H","E","N">>,
   Then |-> <<"T","H","E","N">>,
   Else |-> <<"E","L","S","E">>,
   End |-> <<"E","N","D">>,
   Exists |-> <<"E","X","I","S","T","S">>,
   Any |-> <<"A","N","Y">>,
   With |-> <<"W","I","T","H">>,
   Recursive |-> <<"R","E","C","U","R","S","I","V","E">>,
   Returning |-> <<"R","E","T","U","R","N","I","N","G">>,
   Using |-> <<"U","S","I","N","G">>,
   Natural |-> <<"N","A","T","U","R","A","L">>,
   Fetch |-> <<"F","E","T","C","H">>,
   For |-> <<"F","O","R">>,
   Window |-> <<"W","I","N","D","O","W">>,
   Over |-> <<"O","V","E","R">>,
   Partition |-> <<"P","A","R","T","I","T","I","O","N">>,
   Rows |-> <<"R","O","W","S">>,
   Range |-> <<"R","A","N","G","E">>,
   Unbounded |-> <<"U","N","B","O","U","N","D","E","D">>,
   Preceding |-> <<"P","R","E","C","E","D","I","N","G">>,
   Following |-> <<"F","O","L","L","O","W","I","N","G">>,
   Current |-> <<"C","U","R","R","E","N","T">>,
   Row |-> <<"R","O","W">>,
   Order |-> <<"O","R","D","E","R">>,
   Group |-> <<"G","R","O","U","P">>,
   Left |-> <<"L","E","F","T">>,
   Right |-> <<"R","I","G","H","T">>,
   Inner |-> <<"I","N","N","E","R">>,
   Outer |-> <<"O","U","T","E","R">>,
   Full |-> <<"F","U","L","L">>,
   Cross |-> <<"C","R","O","S","S">>,
   Create |-> <<"C","R","E","A","T","E">>,
   Alter |-> <<"A","L","T","E","R">>,
   Drop |-> <<"D","R","O","P">>,
   Table |-> <<"T","A","B","L","E">>,
   Index |-> <<"I","N","D","E","X">>,
   View |-> <<"V","I","E","W">>,
   Column |-> <<"C","O","L","U","M","N">>,
   Add |-> <<"A","D","D">>,
   Primary |-> <<"P","R","I","M","A","R","Y">>,
   Key |-> <<"K","E","Y">>,
   Foreign |-> <<"F","O","R","E","I","G","N">>,
   References |-> <<"R","E","F","E","R","E","N","C","E","S">>,
   Unique |-> <<"U","N","I","Q","U","E">>,
   Default |-> <<"D","E","F","A","U","L","T">>,
   Check |-> <<"C","H","E","C","K">>,
   Constraint |-> <<"C","O","N","S","T","R","A","I","N","T">>,
   Cascade |-> <<"C","A","S","C","A","D","E">>,
   Restrict |-> <<"R","E","S","T","R","I","C","T">>,
   If |-> <<"I","F">>,
   Temporary |-> <<"T","E","M","P","O","R","A","R","Y">>,
   Temp |-> <<"T","E","M","P">>,
   Schema |-> <<"S","C","H","E","M","A">>,
   Database |-> <<"D","A","T","A","B","A","S","E">>,
   Sequence |-> <<"S","E","Q","U","E","N","C","E">>,
   Trigger |-> <<"T","R","I","G","G","E","R">>,
   Function |-> <<"F","U","N","C","T","I","O","N">>,
   Procedure |-> <<"P","R","O","C","E","D","U","R","E">>,
   Type |-> <<"T","Y","P","E">>,
   Enum |-> <<"E","N","U","M">>,
   Grant |-> <<"G","R","A","N","T">>,
   Revoke |-> <<"R","E","V","O","K","E">>,
   Truncate |-> <<"T","R","U","N","C","A","T","E">>,
   Rename |-> <<"R","E","N","A","M","E">>,
   Replace |-> <<"R","E","P","L","A","C","E">>,
   Comment |-> <<"C","O","M","M","E","N","T">>,
   True |-> <<"T","R","U","E">>,
   False |-> <<"F","A","L","S","E">>,
   Begin |-> <<"B","E","G","I","N">>,
   Commit |-> <<"C","O","M","M","I","T">>,
   Rollback |-> <<"R","O","L","L","B","A","C","K">>,
   Savepoint |-> <<"S","A","V","E","P","O","I","N","T">>,
   Transaction |-> <<"T","R","A","N","S","A","C","T","I","O","N">>,
   Lock |-> <<"L","O","C","K">>,
   Unlock |-> <<"U","N","L","O","C","K">>,
   OrderBy |-> <<"O","R","D","E","R"," ","B","Y">>,
   GroupBy |-> <<"G","R","O","U","P"," ","B","Y">>,
   LeftJoin |-> <<"L","E","F","T"," ","J","O","I","N">>,
   RightJoin |-> <<"R","I","G","H","T"," ","J","O","I","N">>,
   InnerJoin |-> <<"I","N","N","E","R"," ","J","O","I","N">>,
   OuterJoin |-> <<"O","U","T","E","R"," ","J","O","I","N">>,
   FullJoin |-> <<"F","U","L","L"," ","J","O","I","N">>,
   CrossJoin |-> <<"C","R","O","S","S"," ","J","O","I","N">>,
   UnionAll |-> <<"U","N","I","O","N"," ","A","L","L">>,
   PrimaryKey |-> <<"P","R","I","M","A","R","Y"," ","K","E","Y">>,
   ForeignKey |-> <<"F","O","R","E","I","G","N"," ","K","E","Y">>,
   IfExists |-> <<"I","F"," ","E","X","I","S","T","S">>,
   IfNotExists |-> <<"I","F"," ","N","O","T"," ","E","X","I","S","T","S">>,
   RowsBetween |-> <<"R","O","W","S"," ","B","E","T","W","E","E","N">>,
   RangeBetween |-> <<"R","A","N","G","E"," ","B","E","T","W","E","E","N">>]

KeywordKind == SingleKeywords \cup MultiKeywords

NoKeyword == "None"

\* lookup_keyword that searches the spellings of all keywords, the
\* multi-word ones included
lookup_keyword_any(word) ==
  IF \E k \in KeywordKind : eq_ignore_ascii_case(word, as_str[k])
    THEN CHOOSE k \in KeywordKind : eq_ignore_ascii_case(word, as_str[k])
    ELSE NoKeyword

\* str::parse::<KeywordKind>: the single-word keyword spelled `word`, any case
lookup_keyword(word) ==
  IF \E k \in SingleKeywords : eq_ignore_ascii_case(word, as_str[k])
    THEN CHOOSE k \in SingleKeywords : eq_ignore_ascii_case(word, as_str[k])
    ELSE NoKeyword

is_clause_starter(kw) ==
  kw \in {"Select", "From", "Where", "Set", "Values", "Into", "Having", "Limit",
          "Offset", "Union", "UnionAll", "Intersect", "Except", "Returning",
          "Insert", "Update", "Delete", "With", "Fetch"}

is_join_keyword(kw) ==
  kw \in {"Join", "LeftJoin", "RightJoin", "InnerJoin", "OuterJoin", "FullJoin",
          "CrossJoin", "Natural"}

is_sub_clause(kw) == kw \in {"On", "And", "Or"}

is_order_modifier(kw) == kw \in {"OrderBy", "GroupBy"}

is_ddl_starter(kw) ==
  kw \in {"Create", "Alter", "Drop", "Truncate", "Grant", "Revoke"}

TokenTypes ==
  {"Keyword", "Identifier", "QuotedIdentifier", "StringLiteral", "NumberLiteral",
   "Operator", "Comma", "Semicolon", "Dot", "OpenParen", "CloseParen",
   "LineComment", "BlockComment", "Whitespace", "TemplateVariable"}

\* a Token: its variant, the KeywordKind of a Keyword, the &str of a textual variant
Token(type, kw, text) == [type |-> type, kw |-> kw, text |-> text]

Keyword(kw) == Token("Keyword", kw, <<>>)

Textual(type, text) == Token(type, NoKeyword, text)

Punct(type) == Token(type, NoKeyword, <<>>)

NoToken == Token("None", NoKeyword, <<>>)

\* ------------------------------------------------------------------ lexer

TWO_WORD_KEYWORDS ==
  [Order   |-> [expected |-> <<"B","Y">>, combined |-> "OrderBy"],
   Group   |-> [expected |-> <<"B","Y">>, combined |-> "GroupBy"],
   Left    |-> [expected |-> <<"J","O","I","N">>, combined |-> "LeftJoin"],
   Right   |-> [expected |-> <<"J","O","I","N">>, combined |-> "RightJoin"],
   Inner   |-> [expected |-> <<"J","O","I","N">>, combined |-> "InnerJoin"],
   Outer   |-> [expected |-> <<"J","O","I","N">>, combined |-> "OuterJoin"],
   Cross   |-> [expected |-> <<"J","O","I","N">>, combined |-> "CrossJoin"],
   Union   |-> [expected |-> <<"A","L","L">>, combined |-> "UnionAll"],
   Primary |-> [expected |-> <<"K","E","Y">>, combined |-> "PrimaryKey"],
   Foreign |-> [expected |-> <<"K","E","Y">>, combined |-> "ForeignKey"],
   Rows    |-> [expected |-> <<"B","E","T","W","E","E","N">>, combined |-> "RowsBetween"],
   Range   |-> [expected |-> <<"B","E","T","W","E","E","N">>, combined |-> "RangeBetween"]]

THREE_CHAR_OPS == {<<"-", ">", ">">>}

TWO_CHAR_OPS ==
  {<<"<", ">">>, <<"!", "=">>, <<"<", "=">>, <<">", "=">>, <<"|", "|">>,
   <<":", ":">>, <<"-", ">">>}

OperatorStart ==
  {"<", ">", "!", "=", "|", "+", "-", "*", "/", "%", "&", "^", "~", ":"}

WordStart == AsciiAlpha \cup {"_"}

WordByte == AsciiAlnum \cup {"_"}

NoByte == "<none>"

\* Lexer::peek_at (Lexer::peek is peek_at with offset 0)
peek_at(b, pos, offset) ==
  IF pos + offset < Len(b) THEN b[pos + offset + 1] ELSE NoByte

\* str::is_char_boundary, which indexing a &str by a byte range asserts
is_char_boundary(b, i) ==
  \/ i = 0
  \/ i = Len(b)
  \/ i < Len(b) /\ b[i + 1] \notin ContinuationBytes

\* &self.input[start..end] panics unless both ends are character boundaries
slice_ok(b, start, end) ==
  start <= end /\ is_char_boundary(b, start) /\ is_char_boundary(b, end)

slice(b, start, end) == SubSeq(b, start + 1, end)

\* what one lexer function returns: the token, the cursor after it, and
\* whether building the token's slice panicked
LexResult(tok, pos, panic) == [tok |-> tok, pos |-> pos, panic |-> panic]

emit(b, type, start, end, pos) ==
  LexResult(Textual(type, slice(b, start, end)), pos, ~slice_ok(b, start, end))

\* `while let Some(b) = self.peek() { if b in S { advance } else { break } }`
RECURSIVE scan_while(_, _, _)
scan_while(b, p, S) ==
  IF p < Len(b) /\ b[p + 1] \in S THEN scan_while(b, p + 1, S) ELSE p

\* the same loop, stopping at the first byte of S or at the end of input
RECURSIVE scan_until(_, _, _)
scan_until(b, p, S) ==
  IF p < Len(b) /\ b[p + 1] \notin S THEN scan_until(b, p + 1, S) ELSE p

\* offset of the first occurrence of the two bytes c1 c2 at or after p, or Len(b)
RECURSIVE find_pair(_, _, _, _)
find_pair(b, p, c1, c2) ==
  IF p >= Len(b) THEN Len(b)
  ELSE IF b[p + 1] = c1 /\ peek_at(b, p, 1) = c2 THEN p
  ELSE find_pair(b, p + 1, c1, c2)

lex_whitespace(b, pos) ==
  LET end == scan_while(b, pos, AsciiWhitespace)
  IN  emit(b, "Whitespace", pos, end, end)

lex_line_comment(b, pos) ==
  LET start == pos + 2
      end   == scan_until(b, start, {"\n"})
  IN  emit(b, "LineComment", start, end, end)

lex_block_comment(b, pos) ==
  LET start == pos + 2
      end   == find_pair(b, start, "*", "/")
  IN  IF end < Len(b)
        THEN emit(b, "BlockComment", start, end, end + 2)
        ELSE emit(b, "BlockComment", start, Len(b), Len(b))

\* offset of the quote closing a string literal ('' is an escaped quote), or Len(b)
RECURSIVE string_end(_, _)
string_end(b, p) ==
  IF p >= Len(b) THEN Len(b)
  ELSE IF b[p + 1] = "'"
    THEN IF peek_at(b, p, 1) = "'" THEN string_end(b, p + 2) ELSE p
  ELSE string_end(b, p + 1)

lex_string_literal(b, pos) ==
  LET start == pos + 1
      end   == string_end(b, start)
  IN  IF end < Len(b)
        THEN emit(b, "StringLiteral", start, end, end + 1)
        ELSE emit(b, "StringLiteral", start, Len(b), Len(b))

\* lex_quoted_identifier that gives up on an identifier that is never
\* closed: it emits the opening quote as an Operator and resumes after it
lex_quoted_identifier_strict(b, pos) ==
  LET start == pos + 1
      end   == scan_until(b, start, {"\""})
  IN  IF end < Len(b)
        THEN emit(b, "QuotedIdentifier", start, end, end + 1)
        ELSE emit(b, "Operator", pos, pos + 1, pos + 1)

lex_quoted_identifier(b, pos) ==
  LET start == pos + 1
      end   == scan_until(b, start, {"\""})
  IN  IF end < Len(b)
        THEN emit(b, "QuotedIdentifier", start, end, end + 1)
        ELSE emit(b, "QuotedIdentifier", start, Len(b), Len(b))

lex_number(b, pos) ==
  LET int_end == scan_while(b, pos, AsciiDigit)
      end == IF peek_at(b, int_end, 0) = "." /\ peek_at(b, int_end, 1) \in AsciiDigit
               THEN scan_while(b, int_end + 1, AsciiDigit)
               ELSE int_end
  IN  emit(b, "NumberLiteral", pos, end, end)

starts_with(b, pos, op) ==
  /\ pos + Len(op) <= Len(b)
  /\ \A i \in DOMAIN op : b[pos + i] = op[i]

\* lex_operator that moves the cursor three bytes on after a two-byte operator
lex_operator_overrun(b, pos) ==
  IF Len(b) - pos >= 3 /\ \E op \in THREE_CHAR_OPS : starts_with(b, pos, op)
    THEN emit(b, "Operator", pos, pos + 3, pos + 3)
  ELSE IF Len(b) - pos >= 2 /\ \E op \in TWO_CHAR_OPS : starts_with(b, pos, op)
    THEN emit(b, "Operator", pos, pos + 2, pos + 3)
  ELSE emit(b, "Operator", pos, pos + 1, pos + 1)

lex_operator(b, pos) ==
  IF Len(b) - pos >= 3 /\ \E op \in THREE_CHAR_OPS : starts_with(b, pos, op)
    THEN emit(b, "Operator", pos, pos + 3, pos + 3)
  ELSE IF Len(b) - pos >= 2 /\ \E op \in TWO_CHAR_OPS : starts_with(b, pos, op)
    THEN emit(b, "Operator", pos, pos + 2, pos + 2)
  ELSE emit(b, "Operator", pos, pos + 1, pos + 1)

\* lex_template_variable that leaves the cursor at the end of input when the
\* `{{` is never closed, instead of setting it back to brace_start + 1
lex_template_variable_no_rewind(b, pos) ==
  LET brace_start   == pos
      content_start == pos + 2
      end           == find_pair(b, content_start, "}", "}")
  IN  IF end < Len(b)
        THEN emit(b, "TemplateVariable", content_start, end, end + 2)
        ELSE emit(b, "Operator", brace_start, brace_start + 1, Len(b))

lex_template_variable(b, pos) ==
  LET brace_start   == pos
      content_start == pos + 2
      end           == find_pair(b, content_start, "}", "}")
  IN  IF end < Len(b)
        THEN emit(b, "TemplateVariable", content_start, end, end + 2)
        ELSE emit(b, "Operator", brace_start, brace_start + 1, brace_start + 1)

NoWord == [found |-> FALSE, word |-> <<>>, end |-> 0]

peek_word_after_whitespace(b, from) ==
  LET p == scan_while(b, from, AsciiWhitespace)
  IN  IF p >= Len(b) THEN NoWord
      ELSE IF b[p + 1] \notin WordStart THEN NoWord
      ELSE LET end == scan_while(b, p, WordByte)
           IN  [found |-> TRUE, word |-> slice(b, p, end), end |-> end]

\* try_two_word that accepts a next word which only starts with the expected
\* second word, and consumes as much of it as the expected word is long
try_two_word_prefix(b, pos, standalone, expected, combined) ==
  LET w == peek_word_after_whitespace(b, pos)
  IN  IF /\ w.found
         /\ Len(w.word) >= Len(expected)
         /\ eq_ignore_ascii_case(SubSeq(w.word, 1, Len(expected)), expected)
        THEN LexResult(Keyword(combined), w.end - Len(w.word) + Len(expected), FALSE)
        ELSE LexResult(Keyword(standalone), pos, FALSE)

try_two_word(b, pos, standalone, expected, combined) ==
  LET w == peek_word_after_whitespace(b, pos)
  IN  IF w.found /\ eq_ignore_ascii_case(w.word, expected)
        THEN LexResult(Keyword(combined), w.end, FALSE)
        ELSE LexResult(Keyword(standalone), pos, FALSE)

\* try_keyword_combination that settles for the middle word alone: it emits
\* the three-word keyword and consumes the middle word without looking further
try_keyword_combination_eager(b, pos, standalone, direct_word, direct_combined, middle_word, final_word, full_combined) ==
  LET w  == peek_word_after_whitespace(b, pos)
      w2 == peek_word_after_whitespace(b, w.end)
  IN  IF w.found /\ eq_ignore_ascii_case(w.word, direct_word)
        THEN LexResult(Keyword(direct_combined), w.end, FALSE)
      ELSE IF w.found /\ eq_ignore_ascii_case(w.word, middle_word)
        THEN IF w2.found /\ eq_ignore_ascii_case(w2.word, final_word)
               THEN LexResult(Keyword(full_combined), w2.end, FALSE)
               ELSE LexResult(Keyword(full_combined), w.end, FALSE)
      ELSE LexResult(Keyword(standalone), pos, FALSE)

try_keyword_combination(b, pos, standalone, direct_word, direct_combined, middle_word, final_word, full_combined) ==
  LET w  == peek_word_after_whitespace(b, pos)
      w2 == peek_word_after_whitespace(b, w.end)
  IN  IF w.found /\ eq_ignore_ascii_case(w.word, direct_word)
        THEN LexResult(Keyword(direct_combined), w.end, FALSE)
      ELSE IF /\ w.found
              /\ eq_ignore_ascii_case(w.word, middle_word)
              /\ w2.found
              /\ eq_ignore_ascii_case(w2.word, final_word)
        THEN LexResult(Keyword(full_combined), w2.end, FALSE)
      ELSE LexResult(Keyword(standalone), pos, FALSE)

\* `pos` is the cursor after the first word
try_combine_keyword(b, pos, kind) ==
  IF kind \in DOMAIN TWO_WORD_KEYWORDS
    THEN try_two_word(b, pos, kind, TWO_WORD_KEYWORDS[kind].expected,
                      TWO_WORD_KEYWORDS[kind].combined)
  ELSE IF kind = "Full"
    THEN try_keyword_combination(b, pos, "Full", <<"J","O","I","N">>, "FullJoin",
                                 <<"O","U","T","E","R">>, <<"J","O","I","N">>,
                                 "FullJoin")
  ELSE IF kind = "If"
    THEN try_keyword_combination(b, pos, "If", <<"E","X","I","S","T","S">>,
                                 "IfExists", <<"N","O","T">>,
                                 <<"E","X","I","S","T","S">>, "IfNotExists")
  ELSE LexResult(Keyword(kind), pos, FALSE)

lex_word(b, pos) ==
  LET end  == scan_while(b, pos, WordByte)
      word == slice(b, pos, end)
      kind == lookup_keyword(word)
  IN  IF kind # NoKeyword
        THEN try_combine_keyword(b, end, kind)
        ELSE emit(b, "Identifier", pos, end, end)

lex_punctuation(b, pos) ==
  LET c == b[pos + 1]
  IN  LexResult(Punct(CASE c = "," -> "Comma"
                        [] c = ";" -> "Semicolon"
                        [] c = "." -> "Dot"
                        [] c = "(" -> "OpenParen"
                        [] OTHER   -> "CloseParen"),
                pos + 1, FALSE)

\* Lexer::next_token with the cursor at pos < Len(b); the arms in match order
next_token(b, pos) ==
  LET c == b[pos + 1]
      n == peek_at(b, pos, 1)
  IN  IF c \in AsciiWhitespace THEN lex_whitespace(b, pos)
      ELSE IF c = "-" /\ n = "-" THEN lex_line_comment(b, pos)
      ELSE IF c = "/" /\ n = "*" THEN lex_block_comment(b, pos)
      ELSE IF c = "'" THEN lex_string_literal(b, pos)
      ELSE IF c = "\"" THEN lex_quoted_identifier(b, pos)
      ELSE IF c \in AsciiDigit THEN lex_number(b, pos)
      ELSE IF c = "." /\ n \in AsciiDigit THEN lex_number(b, pos)
      ELSE IF c \in {",", ";", ".", "(", ")"} THEN lex_punctuation(b, pos)
      ELSE IF c = "{" /\ n = "{" THEN lex_template_variable(b, pos)
      ELSE IF c \in {"{", "}"} THEN emit(b, "Operator", pos, pos + 1, pos + 1)
      ELSE IF c \in OperatorStart THEN lex_operator(b, pos)
      ELSE IF c \in WordStart THEN lex_word(b, pos)
      ELSE emit(b, "Operator", pos, pos + 1, pos + 1)

\* tokenize: Lexer::new(input).collect(); panic is set when next_token panicked
RECURSIVE collect(_, _, _)
collect(b, pos, acc) ==
  IF pos >= Len(b) THEN [tokens |-> acc, panic |-> FALSE]
  ELSE LET r == next_token(b, pos)
       IN  IF r.panic THEN [tokens |-> acc, panic |-> TRUE]
           ELSE collect(b, r.pos, Append(acc, r.tok))

tokenize(b) == collect(b, 0, <<>>)

\* ------------------------------------------------- formatter: shared state

ClauseContext ==
  {"None", "Select", "From", "Where", "Set", "Values", "Having", "GroupBy",
   "OrderBy", "Join", "Ddl", "Cte", "Other"}

FormatStyle == {"Basic", "Streamline", "Aligned", "Dataops"}

\* the names of the styles, as Display for FormatStyle writes them
style_name ==
  [Basic      |-> <<"b","a","s","i","c">>,
   Streamline |-> <<"s","t","r","e","a","m","l","i","n","e">>,
   Aligned    |-> <<"a","l","i","g","n","e","d">>,
   Dataops    |-> <<"d","a","t","a","o","p","s">>]

\* FormatStyle::from_name that compares the names without regard to case
from_name_any_case(name) ==
  IF \E s \in DOMAIN style_name : eq_ignore_ascii_case(name, style_name[s])
    THEN CHOOSE s \in DOMAIN style_name : eq_ignore_ascii_case(name, style_name[s])
    ELSE "Basic"

from_name(name) ==
  CASE name = <<"b","a","s","i","c">> -> "Basic"
    [] name = <<"s","t","r","e","a","m","l","i","n","e">> -> "Streamline"
    [] name = <<"a","l","i","g","n","e","d">> -> "Aligned"
    [] name = <<"d","a","t","a","o","p","s">> -> "Dataops"
    [] OTHER -> "Basic"

is_single_value_clause(kw) == kw \in {"Limit", "Offset"}

clause_context_from_keyword(kw) ==
  CASE kw = "Select" -> "Select"
    [] kw = "From"   -> "From"
    [] kw = "Where"  -> "Where"
    [] kw = "Set"    -> "Set"
    [] kw = "Values" -> "Values"
    [] kw = "Having" -> "Having"
    [] OTHER         -> "Other"

NoSpaceOperators == {<<":", ":">>, <<"-", ">">>, <<"-", ">", ">">>}

\* prev is NoToken for Option::None
needs_space_before(token, prev) ==
  IF prev = NoToken THEN FALSE
  ELSE IF token.type = "Operator" /\ token.text \in NoSpaceOperators THEN FALSE
  ELSE IF prev.type = "Operator" /\ prev.text \in NoSpaceOperators THEN FALSE
  ELSE ~ \/ prev.type = "OpenParen"
         \/ token.type = "CloseParen"
         \/ prev.type = "Dot"
         \/ token.type = "Dot"
         \/ token.type = "Comma"
         \/ token.type = "Semicolon"

\* FormatterBase::new together with BasicFormatter::new and AlignedFormatter::new:
\* the fields of the formatter a call of format_tokens constructs.  kw_mask and
\* popped_empty are history fields: kw_mask[i] tells whether output[i] was
\* written from keyword_str, popped_empty whether a pop() found its stack empty.
new(style, uppercase) ==
  [style                |-> style,
   uppercase            |-> uppercase,
   paren_depth          |-> 0,
   is_subquery_paren    |-> <<>>,
   inline_paren_depth   |-> 0,
   clause_context       |-> "None",
   is_first_token       |-> TRUE,
   prev_was_ddl_starter |-> FALSE,
   output               |-> <<>>,
   indent_depth         |-> 0,
   needs_indent_newline |-> FALSE,
   needs_space_only     |-> FALSE,
   after_comma_newline  |-> FALSE,
   base_col             |-> 0,
   base_stack           |-> <<>>,
   between_depth        |-> 0,
   in_cte_header        |-> FALSE,
   after_leading_comma  |-> FALSE,
   kw_mask              |-> <<>>,
   popped_empty         |-> FALSE]

is_inline(f) == f.inline_paren_depth > 0

keyword_str(f, kw) ==
  IF f.uppercase THEN as_str[kw] ELSE to_lowercase(as_str[kw])

Spaces(n) == [i \in 1..n |-> " "]

\* output.push_str(text) / output.push(c); is_kw records that text is a keyword_str
push(f, text, is_kw) ==
  [f EXCEPT !.output  = @ \o text,
            !.kw_mask = @ \o [i \in 1..Len(text) |-> is_kw]]

push_str(f, text) == push(f, text, FALSE)

push_space_if(f, cond) == IF cond THEN push_str(f, <<" ">>) ELSE f

\* Vec::pop on the marker stack: the stack without its last element
pop_stack(s) == IF s = <<>> THEN <<>> ELSE SubSeq(s, 1, Len(s) - 1)

\* ------------------------------------- block-indented engines (Basic, Dataops)

IndentUnit == 4

\* the indent unit of the Streamline engine (formatter/streamline.rs): the
\* block-indented policy of the Basic engine with a narrower unit
StreamlineIndentUnit == 2

\* the width of one indentation level in the block-indented engines
indent_width(sty) == IF sty = "Streamline" THEN StreamlineIndentUnit ELSE IndentUnit

write_indent(f, depth) == push_str(f, Spaces(indent_width(f.style) * depth))

write_newline_at(f, depth) == write_indent(push_str(f, <<"\n">>), depth)

base_indent(f) ==
  Cardinality({i \in DOMAIN f.is_subquery_paren : f.is_subquery_paren[i]})

\* a DDL base that counts every open paren
ddl_base_paren_depth_of_all(f) == f.paren_depth

ddl_base_paren_depth(f) ==
  Cardinality({i \in DOMAIN f.is_subquery_paren : f.is_subquery_paren[i]})

\* clears the two clause directives and leaves after_comma_newline as it was
clear_pending_state_keeping_comma(f) ==
  [f EXCEPT !.needs_indent_newline = FALSE,
            !.needs_space_only     = FALSE]

clear_pending_state(f) ==
  [f EXCEPT !.needs_indent_newline = FALSE,
            !.needs_space_only     = FALSE,
            !.after_comma_newline  = FALSE]

\* try_emit_inline when is_inline(): what it writes before it returns true
try_emit_inline(f, kw, kw_str, prev_token) ==
  LET f1 == push_space_if(f, needs_space_before(Keyword(kw), prev_token))
  IN  [push(f1, kw_str, TRUE) EXCEPT !.is_first_token = FALSE]

\* emit_clause_content returns true exactly when one of the two flags is set
clause_content_pending(f) == f.needs_indent_newline \/ f.needs_space_only

emit_clause_content(f, text, is_kw) ==
  IF f.needs_indent_newline
    THEN push(write_newline_at([f EXCEPT !.needs_indent_newline = FALSE],
                               f.indent_depth), text, is_kw)
  ELSE IF f.needs_space_only
    THEN push(push_str([f EXCEPT !.needs_space_only = FALSE], <<" ">>), text, is_kw)
  ELSE f

\* no newline before a clause-level keyword
newline_never(f, depth) == f

\* the newline every clause-level keyword writes unless it starts the statement
newline_unless_first(f, depth) ==
  IF ~f.is_first_token THEN write_newline_at(f, depth) ELSE f

Basic_format_ddl_keyword(f, kw, kw_str) ==
  LET f1 == clear_pending_state(f)
      f2 == newline_unless_first(f1, base_indent(f1))
      f3 == push(f2, kw_str, TRUE)
  IN  [f3 EXCEPT !.is_first_token       = FALSE,
                 !.prev_was_ddl_starter = TRUE,
                 !.clause_context       = "Ddl",
                 !.indent_depth         = base_indent(f3) + 1]

Basic_format_clause_starter(f, kw, kw_str, prev_token) ==
  IF is_inline(f)
    THEN clear_pending_state(try_emit_inline(f, kw, kw_str, prev_token))
  ELSE
    LET f1   == clear_pending_state(f)
        base == base_indent(f1)
        f2   == newline_unless_first(f1, base)
        f3   == push(f2, kw_str, TRUE)
    IN  [f3 EXCEPT !.is_first_token       = FALSE,
                   !.prev_was_ddl_starter = FALSE,
                   !.clause_context       = clause_context_from_keyword(kw),
                   !.indent_depth         = base + 1,
                   !.needs_space_only     = is_single_value_clause(kw),
                   !.needs_indent_newline = ~is_single_value_clause(kw)]

Basic_format_join_keyword(f, kw_str, prev_token) ==
  IF is_inline(f)
    THEN try_emit_inline(f, "Join", kw_str, prev_token)
  ELSE
    LET f1   == clear_pending_state(f)
        base == base_indent(f1)
        f2   == newline_unless_first(f1, base)
        f3   == push(f2, kw_str, TRUE)
    IN  [f3 EXCEPT !.is_first_token       = FALSE,
                   !.clause_context       = "Join",
                   !.indent_depth         = base + 1,
                   !.prev_was_ddl_starter = FALSE,
                   !.needs_space_only     = TRUE]

Basic_format_order_modifier(f, kw, kw_str, prev_token) ==
  IF is_inline(f)
    THEN try_emit_inline(f, kw, kw_str, prev_token)
  ELSE
    LET f1   == clear_pending_state(f)
        base == base_indent(f1)
        f2   == newline_unless_first(f1, base)
        f3   == push(f2, kw_str, TRUE)
    IN  [f3 EXCEPT !.is_first_token       = FALSE,
                   !.indent_depth         = base + 1,
                   !.prev_was_ddl_starter = FALSE,
                   !.clause_context       =
                       IF kw = "GroupBy" THEN "GroupBy"
                       ELSE IF kw = "OrderBy" THEN "OrderBy" ELSE @,
                   !.needs_indent_newline = TRUE]

Basic_format_sub_clause_keyword(f, kw, kw_str, prev_token) ==
  IF is_inline(f)
    THEN try_emit_inline(f, kw, kw_str, prev_token)
  ELSE
    LET f1   == clear_pending_state(f)
        base == base_indent(f1)
        f2   == write_newline_at(f1, base + 1)
        f3   == push(f2, kw_str, TRUE)
    IN  [f3 EXCEPT !.is_first_token = FALSE,
                   !.indent_depth   = base + 1]

Basic_format_other_keyword(f, kw, kw_str, prev_token) ==
  IF is_inline(f)
    THEN try_emit_inline(f, kw, kw_str, prev_token)
  ELSE IF f.prev_was_ddl_starter
    THEN [push(push_str(f, <<" ">>), kw_str, TRUE)
            EXCEPT !.is_first_token       = FALSE,
                   !.prev_was_ddl_starter = FALSE,
                   !.needs_indent_newline = FALSE,
                   !.needs_space_only     = FALSE]
  ELSE IF clause_content_pending(f)
    THEN [emit_clause_content(f, kw_str, TRUE) EXCEPT !.is_first_token = FALSE]
  ELSE IF f.after_comma_newline
    THEN [push(f, kw_str, TRUE) EXCEPT !.after_comma_newline = FALSE,
                                       !.is_first_token      = FALSE]
  ELSE [push(push_space_if(f, needs_space_before(Keyword(kw), prev_token)),
             kw_str, TRUE)
          EXCEPT !.is_first_token = FALSE]

Basic_do_format_keyword(f, kw, prev_token) ==
  LET kw_str == keyword_str(f, kw)
  IN  IF is_ddl_starter(kw) THEN Basic_format_ddl_keyword(f, kw, kw_str)
      ELSE IF is_clause_starter(kw)
        THEN Basic_format_clause_starter(f, kw, kw_str, prev_token)
      ELSE IF is_join_keyword(kw)
        THEN Basic_format_join_keyword(f, kw_str, prev_token)
      ELSE IF is_order_modifier(kw)
        THEN Basic_format_order_modifier(f, kw, kw_str, prev_token)
      ELSE IF kw = "On" \/ kw = "And" \/ kw = "Or"
        THEN Basic_format_sub_clause_keyword(f, kw, kw_str, prev_token)
      ELSE Basic_format_other_keyword(f, kw, kw_str, prev_token)

\* the list contexts without the DDL column list
ListContextsOfQueries == {"Select", "GroupBy", "OrderBy", "Set"}

ListContexts == {"Select", "GroupBy", "OrderBy", "Set", "Ddl"}

\* BasicFormatter::do_format_comma: trailing comma
Basic_do_format_comma(f) ==
  LET f1 == clear_pending_state(f)
  IN  IF is_inline(f1)
        THEN [push_str(f1, <<",">>) EXCEPT !.is_first_token = FALSE]
      ELSE IF f1.clause_context \in ListContexts
        THEN [write_newline_at(push_str(f1, <<",">>), f1.indent_depth)
                EXCEPT !.is_first_token      = FALSE,
                       !.after_comma_newline = TRUE]
      ELSE [push_str(f1, <<",">>) EXCEPT !.is_first_token = FALSE]

\* a leading comma that does not record the line break it wrote
Dataops_do_format_comma_unrecorded(f) ==
  LET f1 == clear_pending_state(f)
  IN  IF is_inline(f1) \/ f1.clause_context \notin ListContexts
        THEN [push_str(f1, <<",">>) EXCEPT !.is_first_token = FALSE]
        ELSE [push_str(write_newline_at(f1, f1.indent_depth), <<",", " ">>)
                EXCEPT !.is_first_token = FALSE]

\* DataopsFormatter::do_format_comma: leading comma
Dataops_do_format_comma(f) ==
  LET f1 == clear_pending_state(f)
  IN  IF is_inline(f1)
        THEN [push_str(f1, <<",">>) EXCEPT !.is_first_token = FALSE]
      ELSE IF f1.clause_context \in ListContexts
        THEN [push_str(write_newline_at(f1, f1.indent_depth), <<",", " ">>)
                EXCEPT !.is_first_token      = FALSE,
                       !.after_comma_newline = TRUE]
      ELSE [push_str(f1, <<",">>) EXCEPT !.is_first_token = FALSE]

\* a lookahead that takes every keyword for the start of a subquery
is_subquery_open_any_keyword(next) == next.type = "Keyword"

\* `next` is filtered.get(idx + 1), NoToken past the end
is_subquery_open(next) == next.type = "Keyword" /\ is_clause_starter(next.kw)

Basic_do_format_open_paren(f, next, prev_token) ==
  LET f1 == IF f.needs_indent_newline
              THEN write_newline_at([f EXCEPT !.needs_indent_newline = FALSE],
                                    f.indent_depth)
              ELSE f
      f2 == [f1 EXCEPT !.needs_space_only = FALSE, !.after_comma_newline = FALSE]
      open == needs_space_before(Punct("OpenParen"), prev_token)
  IN  IF is_subquery_open(next)
        THEN LET f3 == [f2 EXCEPT !.paren_depth = @ + 1,
                                  !.is_subquery_paren = Append(@, TRUE)]
                 f4 == [f3 EXCEPT !.indent_depth = base_indent(f3)]
             IN  [push_str(push_space_if(f4, open), <<"(">>)
                    EXCEPT !.is_first_token = FALSE]
      ELSE IF f2.clause_context = "Ddl" /\ f2.paren_depth = ddl_base_paren_depth(f2)
        THEN LET f3 == [f2 EXCEPT !.paren_depth = @ + 1,
                                  !.is_subquery_paren = Append(@, FALSE)]
                 f4 == push_str(push_space_if(f3, open), <<"(">>)
             IN  [write_newline_at(f4, f4.indent_depth)
                    EXCEPT !.is_first_token = FALSE]
      ELSE LET f3 == [f2 EXCEPT !.paren_depth = @ + 1,
                                !.is_subquery_paren = Append(@, FALSE),
                                !.inline_paren_depth = @ + 1]
               f4 == push_space_if(f3, prev_token.type # "Identifier" /\ open)
           IN  [push_str(f4, <<"(">>) EXCEPT !.is_first_token = FALSE]

\* do_format_close_paren without its early return
close_never_at_depth_zero(f) == FALSE

\* the early return of do_format_close_paren
close_at_depth_zero(f) == f.paren_depth = 0

\* a close paren that never takes the inline branch
close_never_inline(f) == FALSE

\* `else if self.base.inline_paren_depth > 0`
close_is_inline(f) == f.inline_paren_depth > 0

\* a pop of the marker stack that leaves paren_depth as it is
pop_marker_keep_depth(f) ==
  [f EXCEPT !.is_subquery_paren = pop_stack(@),
            !.popped_empty      = @ \/ f.is_subquery_paren = <<>>]

\* is_subquery_paren.pop().unwrap_or(false) and paren_depth -= 1
pop_marker(f) ==
  [f EXCEPT !.is_subquery_paren = pop_stack(@),
            !.paren_depth       = @ - 1,
            !.popped_empty      = @ \/ f.is_subquery_paren = <<>>]

top_marker(f) ==
  IF f.is_subquery_paren = <<>> THEN FALSE
  ELSE f.is_subquery_paren[Len(f.is_subquery_paren)]

Basic_do_format_close_paren(f) ==
  LET f1 == clear_pending_state(f)
  IN  IF close_at_depth_zero(f1)
        THEN [push_str(f1, <<")">>) EXCEPT !.is_first_token = FALSE]
      ELSE
        LET subquery_base == base_indent(f1)
            was_subquery  == top_marker(f1)
            f2            == pop_marker(f1)
        IN  IF was_subquery
              THEN LET f3 == [f2 EXCEPT !.indent_depth = base_indent(f2)]
                   IN  [push_str(write_newline_at(f3, subquery_base), <<")">>)
                          EXCEPT !.is_first_token = FALSE]
            ELSE IF close_is_inline(f2)
              THEN [push_str([f2 EXCEPT !.inline_paren_depth = @ - 1], <<")">>)
                      EXCEPT !.is_first_token = FALSE]
            ELSE LET base == base_indent(f2)
                 IN  [push_str(write_newline_at(f2, base), <<")">>)
                        EXCEPT !.indent_depth   = base,
                               !.is_first_token = FALSE]

Basic_do_format_semicolon(f) ==
  LET f1 == clear_pending_state(f)
  IN  [push_str(f1, <<";", "\n", "\n">>)
         EXCEPT !.indent_depth         = 0,
                !.clause_context       = "None",
                !.prev_was_ddl_starter = FALSE,
                !.is_first_token       = TRUE]

Basic_do_format_value(f, text, prev_token, token) ==
  IF is_inline(f)
    THEN [push_str(push_space_if(clear_pending_state(f),
                                 needs_space_before(token, prev_token)), text)
            EXCEPT !.is_first_token = FALSE]
  ELSE IF f.prev_was_ddl_starter
    THEN clear_pending_state(
           [push_str(push_str(f, <<" ">>), text)
              EXCEPT !.is_first_token       = FALSE,
                     !.prev_was_ddl_starter = FALSE])
  ELSE IF clause_content_pending(f)
    THEN [emit_clause_content(f, text, FALSE)
            EXCEPT !.is_first_token      = FALSE,
                   !.after_comma_newline = FALSE]
  ELSE IF f.after_comma_newline
    THEN [push_str(f, text) EXCEPT !.after_comma_newline = FALSE,
                                   !.is_first_token      = FALSE]
  ELSE [push_str(push_space_if(f, needs_space_before(token, prev_token)), text)
          EXCEPT !.is_first_token = FALSE]

Basic_on_comment(f) == clear_pending_state(f)

Basic_on_dot(f) == [f EXCEPT !.after_comma_newline = FALSE]

\* ------------------------------------------- column-aligned engine (Aligned)

saturating_sub(a, b) == IF a >= b THEN a - b ELSE 0

JoinKeywordColumn == 11

KeywordColumn == 6

LongKeywordPadding == 1

LeadingCommaColumn == 7

SubqueryIndent == 2

\* a padding that right-aligns every keyword that is not a join keyword
keyword_padding_right_aligned(f, kw) ==
  LET len == Len(as_str[kw])
  IN  IF is_join_keyword(kw) THEN saturating_sub(f.base_col + JoinKeywordColumn, len)
      ELSE saturating_sub(f.base_col + KeywordColumn, len)

keyword_padding(f, kw) ==
  LET len == Len(as_str[kw])
  IN  IF is_join_keyword(kw) THEN saturating_sub(f.base_col + JoinKeywordColumn, len)
      ELSE IF len > KeywordColumn THEN f.base_col + LongKeywordPadding
      ELSE saturating_sub(f.base_col + KeywordColumn, len)

write_padding(f, n) == push_str(f, Spaces(n))

write_keyword_on_newline(f, kw) ==
  LET kw_str  == keyword_str(f, kw)
      padding == keyword_padding(f, kw)
      f2      == IF ~f.is_first_token THEN push_str(f, <<"\n">>) ELSE f
  IN  [push(write_padding(f2, padding), kw_str, TRUE) EXCEPT !.is_first_token = FALSE]

write_leading_comma(f) ==
  [push_str(write_padding(push_str(f, <<"\n">>), f.base_col + LeadingCommaColumn),
            <<",", " ">>)
     EXCEPT !.after_leading_comma = TRUE]

Aligned_format_ddl_keyword(f, kw) ==
  [write_keyword_on_newline(f, kw) EXCEPT !.clause_context       = "Ddl",
                                          !.prev_was_ddl_starter = TRUE]

Aligned_format_with_keyword(f) ==
  LET kw_str == keyword_str(f, "With")
      f1     == IF ~f.is_first_token THEN push_str(f, <<"\n">>) ELSE f
  IN  [push(f1, kw_str, TRUE) EXCEPT !.is_first_token = FALSE,
                                     !.clause_context = "Cte",
                                     !.in_cte_header  = TRUE]

Aligned_format_clause_starter(f, kw) ==
  LET is_union == kw \in {"Union", "UnionAll"}
      f1 == IF is_union /\ ~f.is_first_token THEN push_str(f, <<"\n">>) ELSE f
      f2 == write_keyword_on_newline(f1, kw)
      f3 == IF is_union THEN push_str(f2, <<"\n">>) ELSE f2
  IN  [f3 EXCEPT !.clause_context = clause_context_from_keyword(kw)]

Aligned_format_join_keyword(f, kw) ==
  [write_keyword_on_newline(f, kw) EXCEPT !.clause_context = "Join"]

Aligned_format_order_modifier(f, kw) ==
  [write_keyword_on_newline(f, kw)
     EXCEPT !.clause_context = CASE kw = "GroupBy" -> "GroupBy"
                                 [] kw = "OrderBy" -> "OrderBy"
                                 [] OTHER          -> "Other"]

\* `kw == And && self.between_depth > 0`
closes_between(f, kw) == kw = "And" /\ f.between_depth > 0

Aligned_format_sub_clause(f, kw, prev) ==
  IF closes_between(f, kw)
    THEN LET f1 == [f EXCEPT !.between_depth = @ - 1]
             f2 == push_space_if(f1, needs_space_before(Keyword(kw), prev))
         IN  [push(f2, keyword_str(f2, kw), TRUE) EXCEPT !.is_first_token = FALSE]
    ELSE write_keyword_on_newline(f, kw)

Aligned_format_other_keyword(f, kw, kw_str, prev) ==
  LET f1 == IF kw = "Between" THEN [f EXCEPT !.between_depth = @ + 1] ELSE f
  IN  IF f1.after_leading_comma
        THEN [push(f1, kw_str, TRUE) EXCEPT !.after_leading_comma = FALSE,
                                            !.is_first_token      = FALSE]
        ELSE [push(push_space_if(f1, needs_space_before(Keyword(kw), prev)),
                   kw_str, TRUE)
                EXCEPT !.is_first_token = FALSE]

Aligned_do_format_keyword(f, kw, prev) ==
  LET kw_str == keyword_str(f, kw)
  IN  IF is_inline(f)
        THEN [push(push_space_if(f, needs_space_before(Keyword(kw), prev)),
                   kw_str, TRUE)
                EXCEPT !.is_first_token = FALSE]
      ELSE IF is_ddl_starter(kw) THEN Aligned_format_ddl_keyword(f, kw)
      ELSE IF kw = "With" THEN Aligned_format_with_keyword(f)
      ELSE IF is_clause_starter(kw) THEN Aligned_format_clause_starter(f, kw)
      ELSE IF is_join_keyword(kw) THEN Aligned_format_join_keyword(f, kw)
      ELSE IF is_order_modifier(kw) THEN Aligned_format_order_modifier(f, kw)
      ELSE IF kw = "On" \/ kw = "And" \/ kw = "Or"
        THEN Aligned_format_sub_clause(f, kw, prev)
      ELSE Aligned_format_other_keyword(f, kw, kw_str, prev)

Aligned_do_format_comma(f) ==
  IF is_inline(f)
    THEN [push_str(f, <<",">>) EXCEPT !.is_first_token = FALSE]
  ELSE IF f.clause_context \in ListContexts
    THEN [write_leading_comma(f) EXCEPT !.is_first_token = FALSE]
  ELSE IF f.clause_context = "Cte"
    THEN [push_str(write_padding(push_str(f, <<"\n">>), f.base_col), <<",", " ">>)
            EXCEPT !.in_cte_header       = TRUE,
                   !.after_leading_comma = TRUE,
                   !.is_first_token      = FALSE]
  ELSE [push_str(f, <<",">>) EXCEPT !.is_first_token = FALSE]

Aligned_do_format_open_paren(f, next, prev) ==
  LET open == needs_space_before(Punct("OpenParen"), prev)
  IN  IF is_subquery_open(next)
        THEN LET f1 == [f EXCEPT !.paren_depth = @ + 1,
                                 !.is_subquery_paren = Append(@, TRUE),
                                 !.base_stack =
                                     Append(@, <<f.base_col, f.clause_context>>),
                                 !.in_cte_header = FALSE,
                                 !.base_col = @ + SubqueryIndent]
                 f2 == IF f1.after_leading_comma
                         THEN [f1 EXCEPT !.after_leading_comma = FALSE]
                         ELSE push_space_if(f1, open)
             IN  [push_str(f2, <<"(">>) EXCEPT !.is_first_token = FALSE]
        ELSE LET f1 == [f EXCEPT !.paren_depth = @ + 1,
                                 !.is_subquery_paren = Append(@, FALSE),
                                 !.inline_paren_depth = @ + 1]
                 f2 == IF f1.after_leading_comma
                         THEN [f1 EXCEPT !.after_leading_comma = FALSE]
                         ELSE push_space_if(f1, prev.type # "Identifier" /\ open)
             IN  [push_str(f2, <<"(">>) EXCEPT !.is_first_token = FALSE]

\* a close paren that finds nothing to restore: the default of unwrap_or
top_base_default(f) == <<0, "None">>

\* base_stack.pop().unwrap_or((0, ClauseContext::None))
top_base(f) ==
  IF f.base_stack = <<>> THEN <<0, "None">> ELSE f.base_stack[Len(f.base_stack)]

pop_base(f) ==
  [f EXCEPT !.base_stack   = pop_stack(@),
            !.popped_empty = @ \/ f.base_stack = <<>>]

Aligned_do_format_close_paren(f) ==
  IF close_at_depth_zero(f)
    THEN [push_str(f, <<")">>) EXCEPT !.is_first_token = FALSE]
  ELSE
    LET was_subquery == top_marker(f)
        f1           == pop_marker(f)
    IN  IF was_subquery
          THEN LET old_base    == top_base(f1)[1]
                   old_context == top_base(f1)[2]
                   f2 == push_str(pop_base(f1), <<"\n">>)
                   f3 == IF old_context = "Cte" \/ old_context = "From"
                           THEN write_padding(f2, old_base)
                           ELSE write_padding(f2, old_base + SubqueryIndent)
               IN  [push_str(f3, <<")">>) EXCEPT !.base_col       = old_base,
                                                 !.clause_context = old_context,
                                                 !.is_first_token = FALSE]
        ELSE IF close_is_inline(f1)
          THEN [push_str([f1 EXCEPT !.inline_paren_depth = @ - 1], <<")">>)
                  EXCEPT !.is_first_token = FALSE]
        ELSE [push_str(f1, <<")">>) EXCEPT !.is_first_token = FALSE]

\* a semicolon that also forgets the parentheses that are open
Aligned_do_format_semicolon_closing(f) ==
  [push_str(f, <<";", "\n", "\n">>) EXCEPT !.base_col             = 0,
                                           !.clause_context       = "None",
                                           !.prev_was_ddl_starter = FALSE,
                                           !.is_first_token       = TRUE,
                                           !.paren_depth          = 0,
                                           !.is_subquery_paren    = <<>>,
                                           !.inline_paren_depth   = 0,
                                           !.base_stack           = <<>>]

Aligned_do_format_semicolon(f) ==
  [push_str(f, <<";", "\n", "\n">>) EXCEPT !.base_col             = 0,
                                           !.clause_context       = "None",
                                           !.prev_was_ddl_starter = FALSE,
                                           !.is_first_token       = TRUE]

Aligned_do_format_value(f, text, prev, token) ==
  IF f.prev_was_ddl_starter
    THEN [push_str(push_str(f, <<" ">>), text)
            EXCEPT !.prev_was_ddl_starter = FALSE,
                   !.is_first_token       = FALSE]
  ELSE IF f.after_leading_comma
    THEN [push_str(f, text) EXCEPT !.after_leading_comma = FALSE,
                                   !.is_first_token      = FALSE]
  ELSE [push_str(push_space_if(f, needs_space_before(token, prev)), text)
          EXCEPT !.is_first_token = FALSE]

\* ------------------------------------------- the shared driver (SqlFormatter)

format_keyword(f, kw, prev_token) ==
  IF f.style = "Aligned" THEN Aligned_do_format_keyword(f, kw, prev_token)
  ELSE Basic_do_format_keyword(f, kw, prev_token)

format_comma(f) ==
  CASE f.style = "Aligned" -> Aligned_do_format_comma(f)
    [] f.style = "Dataops" -> Dataops_do_format_comma(f)
    [] OTHER               -> Basic_do_format_comma(f)

format_open_paren(f, next, prev_token) ==
  IF f.style = "Aligned" THEN Aligned_do_format_open_paren(f, next, prev_token)
  ELSE Basic_do_format_open_paren(f, next, prev_token)

\* a close paren that goes to a line of its own when no paren is open
format_close_paren_on_new_line(f) ==
  IF f.paren_depth = 0
    THEN [push_str(f, <<"\n", ")">>) EXCEPT !.is_first_token = FALSE]
  ELSE IF f.style = "Aligned" THEN Aligned_do_format_close_paren(f)
  ELSE Basic_do_format_close_paren(f)

format_close_paren(f) ==
  IF f.style = "Aligned" THEN Aligned_do_format_close_paren(f)
  ELSE Basic_do_format_close_paren(f)

format_semicolon(f) ==
  IF f.style = "Aligned" THEN Aligned_do_format_semicolon(f)
  ELSE Basic_do_format_semicolon(f)

\* format_value that follows the casing option for every text it is handed
format_value_cased(f, text, prev_token, token) ==
  LET shown == IF f.uppercase THEN text ELSE to_lowercase(text)
  IN  IF f.style = "Aligned"
        THEN Aligned_do_format_value(f, shown, prev_token, token)
        ELSE Basic_do_format_value(f, shown, prev_token, token)

format_value(f, text, prev_token, token) ==
  IF f.style = "Aligned" THEN Aligned_do_format_value(f, text, prev_token, token)
  ELSE Basic_do_format_value(f, text, prev_token, token)

\* the default hooks of the trait do nothing; Basic and Dataops override them
on_comment(f) == IF f.style = "Aligned" THEN f ELSE Basic_on_comment(f)

on_dot(f) == IF f.style = "Aligned" THEN f ELSE Basic_on_dot(f)

\* a filter that keeps the Whitespace tokens
filter_nothing(toks) == toks

\* tokens.iter().filter(|t| !matches!(t, Token::Whitespace(_))).collect()
filter_whitespace(toks) == SelectSeq(toks, LAMBDA t : t.type # "Whitespace")

\* the `Token::Keyword` arm without its test of the previous token
keyword_never_after_dot(prev_token) == FALSE

\* the `Token::Keyword` arm taken when the previous token is a Dot
keyword_after_dot(prev_token) == prev_token.type = "Dot"

format_keyword_arm(f, token, prev_token) ==
  IF keyword_after_dot(prev_token)
    THEN format_value(f, to_lowercase(as_str[token.kw]), prev_token, token)
    ELSE format_keyword(f, token.kw, prev_token)

format_line_comment(f, token) ==
  LET f1 == push_space_if(f, ~f.is_first_token)
      f2 == push_str(push_str(f1, <<"-", "-">>), token.text)
  IN  on_comment([f2 EXCEPT !.is_first_token = FALSE])

\* a block comment that asks for its space whatever the token before it is
format_block_comment_spaced(f, token, prev_token) ==
  LET f1 == push_space_if(f, ~f.is_first_token)
      f2 == push_str(push_str(push_str(f1, <<"/", "*">>), token.text), <<"*", "/">>)
  IN  on_comment([f2 EXCEPT !.is_first_token = FALSE])

format_block_comment(f, token, prev_token) ==
  LET f1 == push_space_if(f, ~f.is_first_token /\ needs_space_before(token, prev_token))
      f2 == push_str(push_str(push_str(f1, <<"/", "*">>), token.text), <<"*", "/">>)
  IN  on_comment([f2 EXCEPT !.is_first_token = FALSE])

format_dot(f) == on_dot([push_str(f, <<".">>) EXCEPT !.is_first_token = FALSE])

ValueTypes ==
  {"Identifier", "QuotedIdentifier", "StringLiteral", "NumberLiteral", "Operator",
   "TemplateVariable"}

\* the text the value arms hand to format_value
value_text(token) ==
  CASE token.type = "QuotedIdentifier" -> <<"\"">> \o token.text \o <<"\"">>
    [] token.type = "StringLiteral"    -> <<"'">> \o token.text \o <<"'">>
    [] token.type = "TemplateVariable" -> <<"{", "{">> \o token.text \o <<"}", "}">>
    [] OTHER                           -> token.text

format_value_arm(f, token, prev_token) ==
  format_value(f, value_text(token), prev_token, token)

\* char::is_whitespace (the Unicode White_Space property), each character
\* spelled in its UTF-8 bytes: the ASCII white space with the vertical tab,
\* U+0085, U+00A0, U+1680, U+2000..U+200A, U+2028, U+2029, U+202F, U+205F
\* and U+3000
TrimWhitespace ==
  {<<c>> : c \in AsciiWhitespace \cup {"x0B"}}
    \cup {<<"xC2", "x85">>, <<"xC2", "xA0">>, <<"xE1", "x9A", "x80">>}
    \cup {<<"xE2", "x80", c>> : c \in {"x80", "x81", "x82", "x83", "x84", "x85",
                                       "x86", "x87", "x88", "x89", "x8A", "xA8",
                                       "xA9", "xAF"}}
    \cup {<<"xE2", "x81", "x9F">>, <<"xE3", "x80", "x80">>}

\* the white-space character that ends the first n bytes of s, if any
trailing_whitespace(s, n) ==
  {w \in TrimWhitespace : Len(w) <= n /\ SubSeq(s, n - Len(w) + 1, n) = w}

\* a trim_end that removes nothing
trim_end_len_untrimmed(s, n) == n

\* str::trim_end().len()
RECURSIVE trim_end_len(_, _)
trim_end_len(s, n) ==
  IF trailing_whitespace(s, n) # {}
    THEN trim_end_len(s, n - Len(CHOOSE w \in trailing_whitespace(s, n) : TRUE))
    ELSE n

\* the indices of s that str::lines().collect::<Vec<_>>().join("\n") keeps: every
\* byte except a "\r" directly before a "\n" and a "\n" that ends the text
lines_join_kept(s) ==
  SelectSeq([i \in DOMAIN s |-> i],
            LAMBDA i : ~ \/ i = Len(s) /\ s[i] = "\n"
                         \/ /\ s[i] = "\r"
                            /\ i < Len(s)
                            /\ s[i + 1] = "\n")

select_indices(s, idx) == [k \in DOMAIN idx |-> s[idx[k]]]

\* SqlFormatter::finalize_output (default): the output right-trimmed
default_finalize_kept(out) == [i \in 1..trim_end_len(out, Len(out)) |-> i]

\* AlignedFormatter::finalize_output: lines rejoined, then right-trimmed
aligned_finalize_kept(out) ==
  LET kept   == lines_join_kept(out)
      joined == select_indices(out, kept)
  IN  SubSeq(kept, 1, trim_end_len(joined, Len(joined)))

\* the indices of the output buffer that finalize_output returns
finalize_kept(f) ==
  IF f.style = "Aligned" THEN aligned_finalize_kept(f.output)
  ELSE default_finalize_kept(f.output)

finalize_output(f) == select_indices(f.output, finalize_kept(f))

\* ------------------------------------------------------------ state machine

VARIABLES
  \* the source text, the Lexer's cursor and the tokens collected so far
  input, pos, lexed, lex_pc,
  \* the arguments of format_tokens and the driver's loop variables
  tokens, pc, i, prev_token, result, result_mask,
  \* an earlier call's result, kept by the caller to compare with
  calls, first_result, first_mask, first_uppercase,
  \* the formatter's fields (FormatterBase, BasicFormatter, AlignedFormatter)
  style, uppercase, paren_depth, is_subquery_paren, inline_paren_depth,
  clause_context, is_first_token, prev_was_ddl_starter, output, indent_depth,
  needs_indent_newline, needs_space_only, after_comma_newline, base_col,
  base_stack, between_depth, in_cte_header, after_leading_comma, kw_mask,
  popped_empty,
  \* a call of one of the pure functions: which, its argument, what it returned
  callee, arg, ret

lexer_vars == <<input, pos, lexed, lex_pc>>

driver_vars == <<tokens, pc, i, prev_token, result, result_mask>>

caller_vars == <<calls, first_result, first_mask, first_uppercase>>

formatter_vars ==
  <<style, uppercase, paren_depth, is_subquery_paren, inline_paren_depth,
    clause_context, is_first_token, prev_was_ddl_starter, output, indent_depth,
    needs_indent_newline, needs_space_only, after_comma_newline, base_col,
    base_stack, between_depth, in_cte_header, after_leading_comma, kw_mask,
    popped_empty>>

call_vars == <<callee, arg, ret>>

vars == <<lexer_vars, driver_vars, caller_vars, formatter_vars, call_vars>>

\* the formatter as one value
Self ==
  [style                |-> style,
   uppercase            |-> uppercase,
   paren_depth          |-> paren_depth,
   is_subquery_paren    |-> is_subquery_paren,
   inline_paren_depth   |-> inline_paren_depth,
   clause_context       |-> clause_context,
   is_first_token       |-> is_first_token,
   prev_was_ddl_starter |-> prev_was_ddl_starter,
   output               |-> output,
   indent_depth         |-> indent_depth,
   needs_indent_newline |-> needs_indent_newline,
   needs_space_only     |-> needs_space_only,
   after_comma_newline  |-> after_comma_newline,
   base_col             |-> base_col,
   base_stack           |-> base_stack,
   between_depth        |-> between_depth,
   in_cte_header        |-> in_cte_header,
   after_leading_comma  |-> after_leading_comma,
   kw_mask              |-> kw_mask,
   popped_empty         |-> popped_empty]

\* the formatter's fields become those of f
Store(f) ==
  /\ style'                = f.style
  /\ uppercase'            = f.uppercase
  /\ paren_depth'          = f.paren_depth
  /\ is_subquery_paren'    = f.is_subquery_paren
  /\ inline_paren_depth'   = f.inline_paren_depth
  /\ clause_context'       = f.clause_context
  /\ is_first_token'       = f.is_first_token
  /\ prev_was_ddl_starter' = f.prev_was_ddl_starter
  /\ output'               = f.output
  /\ indent_depth'         = f.indent_depth
  /\ needs_indent_newline' = f.needs_indent_newline
  /\ needs_space_only'     = f.needs_space_only
  /\ after_comma_newline'  = f.after_comma_newline
  /\ base_col'             = f.base_col
  /\ base_stack'           = f.base_stack
  /\ between_depth'        = f.between_depth
  /\ in_cte_header'        = f.in_cte_header
  /\ after_leading_comma'  = f.after_leading_comma
  /\ kw_mask'              = f.kw_mask
  /\ popped_empty'         = f.popped_empty

\* `filtered`, the token under the cursor and its neighbours (i is 0-based)
filtered == filter_whitespace(tokens)

token_at(k) == IF k < Len(filtered) THEN filtered[k + 1] ELSE NoToken

current == token_at(i)

\* one turn of the `while i < filtered.len()` loop on a token of the given types
Turn(types, f) ==
  /\ pc = "format"
  /\ i < Len(filtered)
  /\ current.type \in types
  /\ Store(f)
  /\ prev_token' = current
  /\ i' = i + 1
  /\ UNCHANGED <<tokens, pc, result, result_mask, caller_vars, lexer_vars, call_vars>>

FormatKeyword ==
  Turn({"Keyword"}, format_keyword_arm(Self, current, prev_token))

FormatComma == Turn({"Comma"}, format_comma(Self))

FormatOpenParen ==
  Turn({"OpenParen"}, format_open_paren(Self, token_at(i + 1), prev_token))

FormatCloseParen == Turn({"CloseParen"}, format_close_paren(Self))

FormatSemicolon == Turn({"Semicolon"}, format_semicolon(Self))

FormatLineComment == Turn({"LineComment"}, format_line_comment(Self, current))

FormatBlockComment ==
  Turn({"BlockComment"}, format_block_comment(Self, current, prev_token))

FormatDot == Turn({"Dot"}, format_dot(Self))

FormatValue == Turn(ValueTypes, format_value_arm(Self, current, prev_token))

\* format_tokens: the empty token list returns at once; otherwise the style's
\* formatter is constructed and its format() starts
FormatTokens ==
  /\ pc = "call"
  /\ IF tokens = <<>>
       THEN /\ pc' = "done"
            /\ result' = <<>>
            /\ result_mask' = <<>>
            /\ UNCHANGED <<i, prev_token, formatter_vars>>
       ELSE /\ pc' = "format"
            /\ i' = 0
            /\ prev_token' = NoToken
            /\ Store(new(style, uppercase))
            /\ UNCHANGED <<result, result_mask>>
  /\ calls' = calls + 1
  /\ UNCHANGED <<tokens, first_result, first_mask, first_uppercase, lexer_vars, call_vars>>

\* the loop ends: finalize_output takes the buffer and format() returns it
Finalize ==
  /\ pc = "format"
  /\ i >= Len(filtered)
  /\ pc' = "done"
  /\ result' = finalize_output(Self)
  /\ result_mask' = select_indices(kw_mask, finalize_kept(Self))
  /\ Store([Self EXCEPT !.output = <<>>, !.kw_mask = <<>>])
  /\ UNCHANGED <<tokens, i, prev_token, caller_vars, lexer_vars, call_vars>>

\* the caller keeps the result and calls format_tokens again on the same
\* tokens, with the same style and either casing
CallAgain ==
  /\ pc = "done"
  /\ calls = 1
  /\ first_result' = result
  /\ first_mask' = result_mask
  /\ first_uppercase' = uppercase
  /\ \E u \in BOOLEAN : uppercase' = u
  /\ pc' = "call"
  /\ UNCHANGED <<tokens, i, prev_token, result, result_mask, calls, lexer_vars,
                 call_vars,
                 style, paren_depth, is_subquery_paren, inline_paren_depth,
                 clause_context, is_first_token, prev_was_ddl_starter, output,
                 indent_depth, needs_indent_newline, needs_space_only,
                 after_comma_newline, base_col, base_stack, between_depth,
                 in_cte_header, after_leading_comma, kw_mask, popped_empty>>

\* Iterator::next on the Lexer, as collect() calls it
LexNextToken ==
  /\ lex_pc = "scan"
  /\ pos < Len(input)
  /\ LET r == next_token(input, pos)
     IN  IF r.panic
           THEN /\ lex_pc' = "panic"
                /\ UNCHANGED <<pos, lexed>>
           ELSE /\ lexed' = Append(lexed, [tok |-> r.tok, start |-> pos, end |-> r.pos])
                /\ pos' = r.pos
                /\ UNCHANGED lex_pc
  /\ UNCHANGED <<input, driver_vars, caller_vars, formatter_vars, call_vars>>

\* peek() is None: next_token returns None and collect() ends
LexEnd ==
  /\ lex_pc = "scan"
  /\ pos >= Len(input)
  /\ lex_pc' = "done"
  /\ UNCHANGED <<input, pos, lexed, driver_vars, caller_vars, formatter_vars, call_vars>>

\* format_sql: the tokens of tokenize(input) are handed to format_tokens
StartFormat ==
  /\ lex_pc = "done"
  /\ pc = "idle"
  /\ tokens' = [k \in DOMAIN lexed |-> lexed[k].tok]
  /\ pc' = "call"
  /\ \E s \in FormatStyle, u \in BOOLEAN : Store(new(s, u))
  /\ UNCHANGED <<i, prev_token, result, result_mask, caller_vars, lexer_vars, call_vars>>


NoReturn == "<nothing>"

\* lookup_keyword(arg) is called and returns
LookupKeyword ==
  /\ callee = "lookup_keyword"
  /\ ret = NoReturn
  /\ ret' = lookup_keyword(arg)
  /\ UNCHANGED <<callee, arg, lexer_vars, driver_vars, caller_vars, formatter_vars>>

\* FormatStyle::from_name(arg) is called and returns
FromName ==
  /\ callee = "from_name"
  /\ ret = NoReturn
  /\ ret' = from_name(arg)
  /\ UNCHANGED <<callee, arg, lexer_vars, driver_vars, caller_vars, formatter_vars>>
\* ------------------------------------------------------------------ inputs

BoundedSeq(S, n) == UNION {[1..m -> S] : m \in 0..n}

RECURSIVE Concat(_)
Concat(ss) == IF ss = <<>> THEN <<>> ELSE Head(ss) \o Concat(Tail(ss))

\* the longest token list drawn exhaustively from TokenAlphabet
MaxTokens == 3

\* the largest number of fragments a source text is put together from
MaxFragments == 3

Id(text) == Textual("Identifier", text)

Op(text) == Textual("Operator", text)

CommentToken == Textual("LineComment", <<"c">>)

TokenAlphabet ==
  {Keyword("Select"), Keyword("Create"), Keyword("And"), Keyword("Between"),
   Id(<<"A">>), Punct("Comma"), Punct("Semicolon"), Punct("Dot"),
   Punct("OpenParen"), Punct("CloseParen"), CommentToken}

Ws == Textual("Whitespace", <<" ">>)

\* longer token lists, the statements of the repository's tests among them
Scenarios ==
  { \* select a --c followed by a no-break space (U+00A0) up to the end of input
    <<Keyword("Select"), Ws, Id(<<"a">>), Ws,
      Textual("LineComment", <<"c", "xC2", "xA0">>)>>,
    \* select a, B from t where a between 1 and 2 and b in (select c from u);
    <<Keyword("Select"), Ws, Id(<<"a">>), Punct("Comma"), Ws, Id(<<"B">>), Ws,
      Keyword("From"), Ws, Id(<<"t">>), Ws, Keyword("Where"), Ws, Id(<<"a">>), Ws,
      Keyword("Between"), Ws, Textual("NumberLiteral", <<"1">>), Ws, Keyword("And"),
      Ws, Textual("NumberLiteral", <<"2">>), Ws, Keyword("And"), Ws, Id(<<"b">>),
      Ws, Keyword("In"), Ws, Punct("OpenParen"), Keyword("Select"), Ws,
      Id(<<"c">>), Ws, Keyword("From"), Ws, Id(<<"u">>), Punct("CloseParen"),
      Punct("Semicolon")>>,
    \* create table t (a int, "n" varchar(9) not null); drop table t
    <<Keyword("Create"), Ws, Keyword("Table"), Ws, Id(<<"t">>), Ws,
      Punct("OpenParen"), Id(<<"a">>), Ws, Id(<<"int">>), Punct("Comma"), Ws,
      Textual("QuotedIdentifier", <<"n">>), Ws, Id(<<"varchar">>),
      Punct("OpenParen"), Textual("NumberLiteral", <<"9">>), Punct("CloseParen"),
      Ws, Keyword("Not"), Ws, Keyword("Null"), Punct("CloseParen"),
      Punct("Semicolon"), Ws, Keyword("Drop"), Ws, Keyword("Table"), Ws,
      Id(<<"t">>)>>,
    \* with x as (select 1) select e.order, d::int from x join y on x.id = y.id
    \* order by 1 limit 5
    <<Keyword("With"), Ws, Id(<<"x">>), Ws, Keyword("As"), Ws, Punct("OpenParen"),
      Keyword("Select"), Ws, Textual("NumberLiteral", <<"1">>), Punct("CloseParen"),
      Ws, Keyword("Select"), Ws, Id(<<"e">>), Punct("Dot"), Keyword("Order"),
      Punct("Comma"), Ws, Id(<<"d">>), Op(<<":", ":">>), Id(<<"int">>), Ws,
      Keyword("From"), Ws, Id(<<"x">>), Ws, Keyword("Join"), Ws, Id(<<"y">>), Ws,
      Keyword("On"), Ws, Id(<<"x">>), Punct("Dot"), Id(<<"id">>), Ws, Op(<<"=">>),
      Ws, Id(<<"y">>), Punct("Dot"), Id(<<"id">>), Ws, Keyword("OrderBy"), Ws,
      Textual("NumberLiteral", <<"1">>), Ws, Keyword("Limit"), Ws,
      Textual("NumberLiteral", <<"5">>)>>,
    \* select /* all */ * from t where id = {{id}} and n = 'x' -- Tail
    \* union all select 2
    <<Keyword("Select"), Ws, Textual("BlockComment", <<" ", "a", "l", "l", " ">>),
      Ws, Op(<<"*">>), Ws, Keyword("From"), Ws, Id(<<"t">>), Ws, Keyword("Where"),
      Ws, Id(<<"id">>), Ws, Op(<<"=">>), Ws,
      Textual("TemplateVariable", <<"i", "d">>), Ws, Keyword("And"), Ws,
      Id(<<"n">>), Ws, Op(<<"=">>), Ws, Textual("StringLiteral", <<"x">>), Ws,
      Textual("LineComment", <<" ", "T", "a", "i", "l">>),
      Textual("Whitespace", <<"\n">>), Keyword("UnionAll"), Ws, Keyword("Select"),
      Ws, Textual("NumberLiteral", <<"2">>)>>,
    \* select * from (select id from (select id from users) t1) t2
    <<Keyword("Select"), Ws, Op(<<"*">>), Ws, Keyword("From"), Ws,
      Punct("OpenParen"), Keyword("Select"), Ws, Id(<<"id">>), Ws, Keyword("From"),
      Ws, Punct("OpenParen"), Keyword("Select"), Ws, Id(<<"id">>), Ws,
      Keyword("From"), Ws, Id(<<"users">>), Punct("CloseParen"), Ws, Id(<<"t1">>),
      Punct("CloseParen"), Ws, Id(<<"t2">>)>>,
    \* select a, (select b from t) as x, f((select c from u)), d from v
    <<Keyword("Select"), Ws, Id(<<"a">>), Punct("Comma"), Ws, Punct("OpenParen"),
      Keyword("Select"), Ws, Id(<<"b">>), Ws, Keyword("From"), Ws, Id(<<"t">>),
      Punct("CloseParen"), Ws, Keyword("As"), Ws, Id(<<"x">>), Punct("Comma"), Ws,
      Id(<<"f">>), Punct("OpenParen"), Punct("OpenParen"), Keyword("Select"), Ws,
      Id(<<"c">>), Ws, Keyword("From"), Ws, Id(<<"u">>), Punct("CloseParen"),
      Punct("CloseParen"), Punct("Comma"), Ws, Id(<<"d">>), Ws, Keyword("From"), Ws,
      Id(<<"v">>)>>,
    \* select a from (select b from (select c; select d) t1) t2
    <<Keyword("Select"), Ws, Id(<<"a">>), Ws, Keyword("From"), Ws,
      Punct("OpenParen"), Keyword("Select"), Ws, Id(<<"b">>), Ws, Keyword("From"),
      Ws, Punct("OpenParen"), Keyword("Select"), Ws, Id(<<"c">>),
      Punct("Semicolon"), Ws, Keyword("Select"), Ws, Id(<<"d">>),
      Punct("CloseParen"), Ws, Id(<<"t1">>), Punct("CloseParen"), Ws,
      Id(<<"t2">>)>>,
    \* select a, from t where b between 1; select c and d
    <<Keyword("Select"), Ws, Id(<<"a">>), Punct("Comma"), Ws, Keyword("From"), Ws,
      Id(<<"t">>), Ws, Keyword("Where"), Ws, Id(<<"b">>), Ws, Keyword("Between"),
      Ws, Textual("NumberLiteral", <<"1">>), Punct("Semicolon"), Ws,
      Keyword("Select"), Ws, Id(<<"c">>), Ws, Keyword("And"), Ws, Id(<<"d">>)>>,
    \* update t set a = f(1, 2), b = 2 from u, v group by d, e order by g, h
    \* having i, j
    <<Keyword("Update"), Ws, Id(<<"t">>), Ws, Keyword("Set"), Ws, Id(<<"a">>), Ws,
      Op(<<"=">>), Ws, Id(<<"f">>), Punct("OpenParen"),
      Textual("NumberLiteral", <<"1">>), Punct("Comma"), Ws,
      Textual("NumberLiteral", <<"2">>), Punct("CloseParen"), Punct("Comma"), Ws,
      Id(<<"b">>), Ws, Op(<<"=">>), Ws, Textual("NumberLiteral", <<"2">>), Ws,
      Keyword("From"), Ws, Id(<<"u">>), Punct("Comma"), Ws, Id(<<"v">>), Ws,
      Keyword("GroupBy"), Ws, Id(<<"d">>), Punct("Comma"), Ws, Id(<<"e">>), Ws,
      Keyword("OrderBy"), Ws, Id(<<"g">>), Punct("Comma"), Ws, Id(<<"h">>), Ws,
      Keyword("Having"), Ws, Id(<<"i">>), Punct("Comma"), Ws, Id(<<"j">>)>>,
    \* (select create (a, (b), c) d)
    <<Punct("OpenParen"), Keyword("Select"), Ws, Keyword("Create"), Ws,
      Punct("OpenParen"), Id(<<"a">>), Punct("Comma"), Ws, Punct("OpenParen"),
      Id(<<"b">>), Punct("CloseParen"), Punct("Comma"), Ws, Id(<<"c">>),
      Punct("CloseParen"), Ws, Id(<<"d">>), Punct("CloseParen")>>,
    \* select f(/* c */ a)./*d*/::/*e*/ b /*g*/; -- h
    <<Keyword("Select"), Ws, Id(<<"f">>), Punct("OpenParen"),
      Textual("BlockComment", <<" ", "c", " ">>), Ws, Id(<<"a">>),
      Punct("CloseParen"), Punct("Dot"), Textual("BlockComment", <<"d">>),
      Op(<<":", ":">>), Textual("BlockComment", <<"e">>), Ws, Id(<<"b">>), Ws,
      Textual("BlockComment", <<"g">>), Punct("Semicolon"), Ws,
      Textual("LineComment", <<" ", "h">>)>>,
    \* create::int; select a limit::b join->c
    <<Keyword("Create"), Op(<<":", ":">>), Id(<<"int">>), Punct("Semicolon"), Ws,
      Keyword("Select"), Ws, Id(<<"a">>), Ws, Keyword("Limit"), Op(<<":", ":">>),
      Id(<<"b">>), Ws, Keyword("Join"), Op(<<"-", ">">>), Id(<<"c">>)>>,
    \* with a as (select 1), b as (select 2) select c, (d), null, e
    <<Keyword("With"), Ws, Id(<<"a">>), Ws, Keyword("As"), Ws, Punct("OpenParen"),
      Keyword("Select"), Ws, Textual("NumberLiteral", <<"1">>), Punct("CloseParen"),
      Punct("Comma"), Ws, Id(<<"b">>), Ws, Keyword("As"), Ws, Punct("OpenParen"),
      Keyword("Select"), Ws, Textual("NumberLiteral", <<"2">>), Punct("CloseParen"),
      Ws, Keyword("Select"), Ws, Id(<<"c">>), Punct("Comma"), Ws,
      Punct("OpenParen"), Id(<<"d">>), Punct("CloseParen"), Punct("Comma"), Ws,
      Keyword("Null"), Punct("Comma"), Ws, Id(<<"e">>)>>,
    \* (select 1) union (select 2) union all select 3 union 4
    <<Punct("OpenParen"), Keyword("Select"), Ws, Textual("NumberLiteral", <<"1">>),
      Punct("CloseParen"), Ws, Keyword("Union"), Ws, Punct("OpenParen"),
      Keyword("Select"), Ws, Textual("NumberLiteral", <<"2">>), Punct("CloseParen"),
      Ws, Keyword("UnionAll"), Ws, Keyword("Select"), Ws,
      Textual("NumberLiteral", <<"3">>), Ws, Keyword("Union"), Ws,
      Textual("NumberLiteral", <<"4">>)>>,
    \* select a between (select b from t where c and d) and e or f(g and h)
    <<Keyword("Select"), Ws, Id(<<"a">>), Ws, Keyword("Between"), Ws,
      Punct("OpenParen"), Keyword("Select"), Ws, Id(<<"b">>), Ws, Keyword("From"),
      Ws, Id(<<"t">>), Ws, Keyword("Where"), Ws, Id(<<"c">>), Ws, Keyword("And"),
      Ws, Id(<<"d">>), Punct("CloseParen"), Ws, Keyword("And"), Ws, Id(<<"e">>),
      Ws, Keyword("Or"), Ws, Id(<<"f">>), Punct("OpenParen"), Id(<<"g">>), Ws,
      Keyword("And"), Ws, Id(<<"h">>), Punct("CloseParen")>>
  }

\* token lists that hold nothing but Whitespace tokens
BlankInputs ==
  BoundedSeq({Ws, Textual("Whitespace", <<"\n", "\t">>)}, MaxTokens)

\* the keywords the column-aligned engine writes on a line of their own
LineKeywords ==
  {kw \in KeywordKind :
     is_clause_starter(kw) \/ is_join_keyword(kw) \/ is_order_modifier(kw)
       \/ is_sub_clause(kw)}

\* every such keyword behind an identifier, and as the second token of a subquery
KeywordInputs ==
  {<<Id(<<"A">>), Keyword(kw)>> : kw \in LineKeywords}
    \cup {<<Punct("OpenParen"), Keyword("Select"), Keyword(kw)>> : kw \in LineKeywords}

TokenInputs ==
  BoundedSeq(TokenAlphabet, MaxTokens) \cup BlankInputs \cup Scenarios
    \cup KeywordInputs

\* the pieces source texts are put together from
Fragments ==
  {<<"o","r","d","e","r">>, <<" ","B","y">>, <<" ">>, <<"\n">>, <<"{","{">>,
   <<"}">>, <<"x">>, <<"'">>, <<"-">>, <<">">>, <<"/","*">>, <<"1">>, <<".">>,
   <<"(">>, <<"xC3","xA9">>, <<"\"">>, <<"*","/">>}

SourceTexts ==
  {Concat(fs) : fs \in BoundedSeq(Fragments, MaxFragments)}

\* ----------------------------------------------------------- specifications

InitFormatterFields(s, u) ==
  /\ style = s
  /\ uppercase = u
  /\ paren_depth = 0
  /\ is_subquery_paren = <<>>
  /\ inline_paren_depth = 0
  /\ clause_context = "None"
  /\ is_first_token = TRUE
  /\ prev_was_ddl_starter = FALSE
  /\ output = <<>>
  /\ indent_depth = 0
  /\ needs_indent_newline = FALSE
  /\ needs_space_only = FALSE
  /\ after_comma_newline = FALSE
  /\ base_col = 0
  /\ base_stack = <<>>
  /\ between_depth = 0
  /\ in_cte_header = FALSE
  /\ after_leading_comma = FALSE
  /\ kw_mask = <<>>
  /\ popped_empty = FALSE

InitDriver(toks, at) ==
  /\ tokens = toks
  /\ pc = at
  /\ i = 0
  /\ prev_token = NoToken
  /\ result = <<>>
  /\ result_mask = <<>>
  /\ calls = 0
  /\ first_result = <<>>
  /\ first_mask = <<>>
  /\ first_uppercase = TRUE

InitLexer(text, at) ==
  /\ input = text
  /\ pos = 0
  /\ lexed = <<>>
  /\ lex_pc = at

InitCall(f, x) ==
  /\ callee = f
  /\ arg = x
  /\ ret = NoReturn

\* format_tokens is called once on a token list
Init ==
  /\ \E toks \in TokenInputs : InitDriver(toks, "call")
  /\ \E s \in FormatStyle, u \in BOOLEAN : InitFormatterFields(s, u)
  /\ InitLexer(<<>>, "idle")
  /\ InitCall("none", <<>>)

FormatStep ==
  \/ FormatKeyword
  \/ FormatComma
  \/ FormatOpenParen
  \/ FormatCloseParen
  \/ FormatSemicolon
  \/ FormatLineComment
  \/ FormatBlockComment
  \/ FormatDot
  \/ FormatValue

Next ==
  \/ FormatTokens
  \/ FormatStep
  \/ Finalize

Spec == Init /\ [][Next]_vars

\* format_tokens is called twice on the same token list
NextTwice ==
  \/ Next
  \/ CallAgain

SpecTwice == Init /\ [][NextTwice]_vars

\* tokenize is called on a source text
InitLex ==
  /\ \E text \in SourceTexts : InitLexer(text, "scan")
  /\ InitDriver(<<>>, "idle")
  /\ InitFormatterFields("Basic", TRUE)
  /\ InitCall("none", <<>>)

NextLex ==
  \/ LexNextToken
  \/ LexEnd

SpecLex == InitLex /\ [][NextLex]_vars

\* a spelling with every second letter in lower case
mixed_case(s) ==
  [k \in DOMAIN s |-> IF k % 2 = 0 THEN to_ascii_lowercase(s[k]) ELSE s[k]]

\* the first words of the two-word keywords, in upper and in mixed case
FirstWords ==
  LET firsts == {as_str[k] : k \in DOMAIN TWO_WORD_KEYWORDS}
  IN  firsts \cup {mixed_case(w) : w \in firsts}

\* the words a two-word keyword continues with, and words that are not one
SecondWords ==
  {<<"B","Y">>, <<"J","O","I","N">>, <<"A","L","L">>, <<"K","E","Y">>,
   <<"B","E","T","W","E","E","N">>, <<"b","Y">>, <<"j","o","i","n">>,
   <<"a","l","L">>, <<"k","e","y">>, <<"B","e","t","w","e","e","n">>,
   <<"x">>, <<"B","Y","x">>, <<"J","O","I","N","S">>, <<"B","E","T","W","E","E">>}

\* FULL and IF, the first words of the three-word combinations
LongFirstWords ==
  {<<"F","U","L","L">>, <<"f","u","L","l">>, <<"I","F">>, <<"i","F">>}

MiddleWords ==
  {<<"J","O","I","N">>, <<"O","U","T","E","R">>, <<"N","O","T">>,
   <<"E","X","I","S","T","S">>, <<"o","u","t","e","r">>, <<"n","O","t">>,
   <<"x">>, <<"N","O","T","E">>}

FinalWords ==
  {<<>>, <<"J","O","I","N">>, <<"E","x","i","s","t","s">>, <<"x">>,
   <<"J","O","I","N","_">>}

\* what stands between two words: whitespace of bounded length, or a dot
MaxGap == 2

Gaps == BoundedSeq({" ", "\n"}, MaxGap) \cup {<<".">>}

ShortGaps == {<<>>, <<" ">>, <<"\t">>}

KeywordTexts ==
  {w1 \o g1 \o w2 : w1 \in FirstWords, g1 \in Gaps, w2 \in SecondWords}
  \cup
  {w1 \o g1 \o w2 \o g2 \o w3 :
     w1 \in LongFirstWords, g1 \in Gaps, w2 \in MiddleWords, g2 \in ShortGaps,
     w3 \in FinalWords}

\* tokenize is called on a text that starts with a keyword combination
InitKw ==
  /\ \E text \in KeywordTexts : InitLexer(text, "scan")
  /\ InitDriver(<<>>, "idle")
  /\ InitFormatterFields("Basic", TRUE)
  /\ InitCall("none", <<>>)

SpecKw == InitKw /\ [][NextLex]_vars

\* what is appended to a keyword's spelling to get a longer word
Suffixes == {<<"X">>, <<"s">>, <<"_">>, <<" ">>, <<"T","O">>, <<" ","B","Y">>}

\* the words lookup_keyword is called on: every keyword's spelling in three
\* casings, the spellings of the multi-word keywords, spellings with a suffix
\* or without their last letter, and words that are no keyword at all
LookupWords ==
  {as_str[k] : k \in KeywordKind}
  \cup {to_lowercase(as_str[k]) : k \in KeywordKind}
  \cup {mixed_case(as_str[k]) : k \in KeywordKind}
  \cup {as_str[k] \o x : k \in SingleKeywords, x \in Suffixes}
  \cup {SubSeq(as_str[k], 1, Len(as_str[k]) - 1) : k \in SingleKeywords}
  \cup {<<>>, <<"f","o","o","b","a","r">>, <<"s","e","l","e","c","t","x">>,
        <<"xC3","xA9">>, <<" ">>}

\* the names FormatStyle::from_name is called on
StyleNames ==
  {style_name[s] : s \in DOMAIN style_name}
  \cup {style_name[s] \o x : s \in DOMAIN style_name, x \in {<<" ">>, <<"s">>}}
  \cup {<<" ">> \o style_name[s] : s \in DOMAIN style_name}
  \cup {SubSeq(style_name[s], 1, Len(style_name[s]) - 1) : s \in DOMAIN style_name}
  \cup {<<"B","a","s","i","c">>, <<"B","A","S","I","C">>,
        <<"S","t","r","e","a","m","l","i","n","e">>,
        <<"S","T","R","E","A","M","L","I","N","E">>,
        <<"A","l","i","g","n","e","d">>, <<"A","L","I","G","N","E","D">>,
        <<"D","a","t","a","o","p","s">>, <<"D","A","T","A","O","P","S">>,
        <<"d","a","t","a","O","p","s">>, <<>>,
        <<"u","n","k","n","o","w","n">>, <<"r","i","v","e","r">>}

\* one of the pure functions is called on one argument
InitCalls ==
  /\ \/ \E word \in LookupWords : InitCall("lookup_keyword", word)
     \/ \E name \in StyleNames : InitCall("from_name", name)
  /\ InitLexer(<<>>, "idle")
  /\ InitDriver(<<>>, "idle")
  /\ InitFormatterFields("Basic", TRUE)

NextCalls ==
  \/ LookupKeyword
  \/ FromName

\* a call that has been made returns
SpecCalls == InitCalls /\ [][NextCalls]_vars /\ WF_vars(NextCalls)

\* the pieces the source texts of a whole run are put together from
PipeFragments ==
  {<<"s","e","l","e","c","t">>, <<"\n">>, <<"a">>, <<",">>, <<";">>,
   <<".">>, <<"(">>, <<")">>, <<"-","-","c">>, <<"/","*","c","*","/">>,
   <<"-",">">>, <<">">>, <<"5">>}

PipeTexts ==
  {Concat(fs) : fs \in BoundedSeq(PipeFragments, MaxFragments)}

\* a whole run: tokenize the source text, then format_tokens on its tokens
InitPipe ==
  /\ \E text \in PipeTexts : InitLexer(text, "scan")
  /\ InitDriver(<<>>, "idle")
  /\ InitFormatterFields("Basic", TRUE)
  /\ InitCall("none", <<>>)

NextPipe ==
  \/ NextLex
  \/ StartFormat
  \/ Next

SpecPipe == InitPipe /\ [][NextPipe]_vars

\* ------------------------------------------------------------------ claims

\* C2: the output renders the token stream of the input. Once a source text
\* has been tokenized and formatted, tokenizing the result and dropping the
\* Whitespace tokens gives the non-whitespace tokens of the input again: none
\* dropped, merged with a neighbour or absorbed into a comment.
C2_SameTokenStream ==
  (lex_pc = "done" /\ pc = "done")
    => LET again == tokenize(result)
       IN  /\ ~again.panic
           /\ filter_whitespace(again.tokens) = filtered

\* C3: no line of the returned text ends with a space or a tab, in any style:
\* a space or tab of the result is neither its last byte nor directly before
\* a line feed.
C3_NoTrailingWhitespaceOnLines ==
  pc = "done"
    => \A k \in DOMAIN result :
         result[k] \in {" ", "\t"}
           => /\ k < Len(result)
              /\ result[k + 1] # "\n"

\* C4: the returned text does not end with a line feed or any other white
\* space, in any style; the line feeds written after a last semicolon are
\* gone from the result.
C4_NoTrailingNewline ==
  pc = "done" => trailing_whitespace(result, Len(result)) = {}

\* a token list that ends with a semicolon has been formatted
C4_Witness ==
  /\ pc = "done"
  /\ filtered # <<>>
  /\ filtered[Len(filtered)].type = "Semicolon"
  /\ result # <<>>
  /\ result[Len(result)] = ";"

\* C5: the layout engines never fail on malformed token lists. The counters
\* paren_depth, inline_paren_depth and between_depth (and the indentation
\* baselines) never go below zero, nothing is popped from an empty marker or
\* base-column stack, and while a call is formatting there is always a next
\* step: a handler for the token under the cursor, or the return of the text.
C5_EnginesNeverFail ==
  /\ paren_depth >= 0
  /\ inline_paren_depth >= 0
  /\ between_depth >= 0
  /\ indent_depth >= 0
  /\ base_col >= 0
  /\ ~popped_empty
  /\ pc = "format"
       => /\ i <= Len(filtered)
          /\ i < Len(filtered)
               => current.type \in
                    {"Keyword", "Comma", "OpenParen", "CloseParen", "Semicolon",
                     "LineComment", "BlockComment", "Dot"} \cup ValueTypes

\* a close paren met at depth zero has been processed
C5_Witness ==
  /\ pc = "format"
  /\ i >= 1
  /\ prev_token.type = "CloseParen"
  /\ \A k \in 1..i : filtered[k].type # "OpenParen"
  /\ output # <<>>
  /\ output[Len(output)] = ")"

\* C6: tokenize never fails, and a byte of a multi-byte character that starts
\* no recognised token becomes an Operator token of that single byte.
C6_UnknownBytesBecomeOperators ==
  /\ lex_pc # "panic"
  /\ \A k \in DOMAIN lexed :
       input[lexed[k].start + 1] \in NonAscii
         => /\ lexed[k].end = lexed[k].start + 1
            /\ lexed[k].tok = Op(<<input[lexed[k].start + 1]>>)

\* the source text holds ASCII bytes only
is_ascii(b) == \A k \in DOMAIN b : b[k] \notin NonAscii

without_whitespace(s) == SelectSeq(s, LAMBDA c : c \notin AsciiWhitespace)

\* the words a keyword token may have been read from, written without the
\* white space between them
keyword_words(kw) ==
  {without_whitespace(as_str[kw])}
    \cup (IF kw = "FullJoin"
            THEN {<<"F","U","L","L","O","U","T","E","R","J","O","I","N">>}
            ELSE {})

\* the bytes s are what the token tok was read from: its text between its
\* delimiters (a comment, string or quoted identifier that runs to the end of
\* input has no closing delimiter)
spells(tok, s) ==
  CASE tok.type = "Keyword" ->
         \E w \in keyword_words(tok.kw) :
           eq_ignore_ascii_case(without_whitespace(s), w)
    [] tok.type = "Comma"       -> s = <<",">>
    [] tok.type = "Semicolon"   -> s = <<";">>
    [] tok.type = "Dot"         -> s = <<".">>
    [] tok.type = "OpenParen"   -> s = <<"(">>
    [] tok.type = "CloseParen"  -> s = <<")">>
    [] tok.type = "LineComment" -> s = <<"-", "-">> \o tok.text
    [] tok.type = "BlockComment" ->
         s \in {<<"/", "*">> \o tok.text \o <<"*", "/">>, <<"/", "*">> \o tok.text}
    [] tok.type = "StringLiteral" ->
         s \in {<<"'">> \o tok.text \o <<"'">>, <<"'">> \o tok.text}
    [] tok.type = "QuotedIdentifier" ->
         s \in {<<"\"">> \o tok.text \o <<"\"">>, <<"\"">> \o tok.text}
    [] tok.type = "TemplateVariable" ->
         s = <<"{", "{">> \o tok.text \o <<"}", "}">>
    [] OTHER -> s = tok.text

\* C7: lexing an ASCII source text is lossless. The byte ranges of the tokens
\* returned so far are non-empty, start at offset 0, follow one another
\* without gap or overlap and end at the cursor, which is the length of the
\* text once tokenize has returned; and each token is read from exactly the
\* bytes of its range, so every byte belongs to one token. This includes a
\* multi-word keyword, whose range holds the white space between its words,
\* and an unclosed `{{`, after which the cursor is set back.
C7_LosslessLexing ==
  is_ascii(input)
    => /\ lex_pc # "panic"
       /\ pos <= Len(input)
       /\ pos = (IF lexed = <<>> THEN 0 ELSE lexed[Len(lexed)].end)
       /\ lex_pc = "done" => pos = Len(input)
       /\ \A k \in DOMAIN lexed :
            /\ lexed[k].start = (IF k = 1 THEN 0 ELSE lexed[k - 1].end)
            /\ lexed[k].start < lexed[k].end
            /\ spells(lexed[k].tok, slice(input, lexed[k].start, lexed[k].end))

\* a text with a two-word keyword followed by an unclosed `{{` has been
\* tokenized
C7_Witness ==
  /\ lex_pc = "done"
  /\ is_ascii(input)
  /\ Len(lexed) = 3
  /\ lexed[1].tok = Keyword("OrderBy")
  /\ lexed[1].end - lexed[1].start > 7
  /\ lexed[2].tok = Op(<<"{">>)
  /\ lexed[3].tok = Op(<<"{">>)

only_whitespace(toks) == \A k \in DOMAIN toks : toks[k].type = "Whitespace"

\* C8: a token list that is empty or holds Whitespace tokens only gives the
\* empty string: no token reaches a handler, nothing is written to the output
\* buffer, and the text returned is empty.
C8_BlankGivesEmpty ==
  only_whitespace(tokens)
    => /\ output = <<>>
       /\ pc = "format" => i >= Len(filtered)
       /\ pc = "done" => result = <<>>

\* a non-empty list of Whitespace tokens has been formatted
C8_Witness ==
  /\ tokens # <<>>
  /\ only_whitespace(tokens)
  /\ pc = "done"
  /\ calls = 1
  /\ result = <<>>

\* C9: the uppercase option changes the letter case of keywords and nothing
\* else. When the same tokens have been formatted in the same style once with
\* each casing, the two results have the same length, the same bytes come
\* from keyword_str in both, these differ at most in letter case, and every
\* other byte (line breaks, indentation, padding, spacing, identifier, literal,
\* operator, template-variable and comment text) is the same.
C9_CasingOnlyKeywords ==
  (calls = 2 /\ pc = "done" /\ uppercase # first_uppercase)
    => /\ Len(result) = Len(first_result)
       /\ result_mask = first_mask
       /\ \A k \in DOMAIN result :
            IF result_mask[k]
              THEN to_ascii_lowercase(result[k]) = to_ascii_lowercase(first_result[k])
              ELSE result[k] = first_result[k]

\* the two casings have given results that differ in a keyword and agree on an
\* upper-case letter outside keywords
C9_Witness ==
  /\ calls = 2
  /\ pc = "done"
  /\ uppercase # first_uppercase
  /\ \E k \in DOMAIN result : result_mask[k] /\ result[k] # first_result[k]
  /\ \E k \in DOMAIN result : ~result_mask[k] /\ result[k] \in AsciiUpper

\* the keyword token under the cursor follows a Dot
at_keyword_after_dot ==
  /\ pc = "format"
  /\ i < Len(filtered)
  /\ current.type = "Keyword"
  /\ prev_token.type = "Dot"

\* C10: a keyword token that follows a `.` is emitted as a value. The step
\* that processes it appends the keyword's lowercase spelling to the output,
\* after white space at most, none of it written as a keyword, whatever the
\* style and the casing option; and it leaves clause_context, indent_depth,
\* base_col, paren_depth and the marker stack is_subquery_paren unchanged.
C10_KeywordAfterDotIsValue ==
  [][at_keyword_after_dot
       => LET name == to_lowercase(as_str[current.kw])
              before == Len(output)
              after  == Len(output')
          IN  /\ clause_context' = clause_context
              /\ indent_depth' = indent_depth
              /\ base_col' = base_col
              /\ paren_depth' = paren_depth
              /\ is_subquery_paren' = is_subquery_paren
              /\ after >= before + Len(name)
              /\ SubSeq(output', 1, before) = output
              /\ SubSeq(output', after - Len(name) + 1, after) = name
              /\ \A k \in (before + 1)..(after - Len(name)) :
                   output'[k] \in AsciiWhitespace
              /\ \A k \in (before + 1)..after : ~kw_mask'[k]]_vars

\* a keyword that follows a Dot has been processed under uppercase = TRUE
C10_Witness ==
  /\ pc = "format"
  /\ uppercase
  /\ i >= 2
  /\ prev_token.type = "Keyword"
  /\ filtered[i - 1].type = "Dot"
  /\ output[Len(output)] \in AsciiLower

\* the offset where the word that starts at offset s ends
word_end(b, s) ==
  CHOOSE e \in s..Len(b) :
    /\ \A p \in s..(e - 1) : b[p + 1] \in WordByte
    /\ e < Len(b) => b[e + 1] \notin WordByte

\* from offset `from` on, b holds white space up to offset p and then, up to
\* offset e, a whole word that equals `word` when ASCII case is ignored
word_follows(b, from, word, p, e) ==
  /\ from <= p
  /\ e = p + Len(word)
  /\ e <= Len(b)
  /\ \A q \in from..(p - 1) : b[q + 1] \in AsciiWhitespace
  /\ \A q \in 1..Len(word) : to_ascii_lowercase(b[p + q]) = to_ascii_lowercase(word[q])
  /\ e < Len(b) => b[e + 1] \notin WordByte

\* the word the token lexed at entry k starts with; empty when it starts
\* with no word
first_word(k) ==
  IF input[lexed[k].start + 1] \in WordStart
    THEN slice(input, lexed[k].start, word_end(input, lexed[k].start))
    ELSE <<>>

\* C11: a token that starts with one of the twelve first words of a two-word
\* keyword is the combined keyword, ending where the second word ends, exactly
\* when white space (possibly none) and then the expected second word as a
\* whole word, in any case, follow the first word; otherwise it is the
\* standalone keyword and ends directly after the first word.
C11_TwoWordCombination ==
  \A k \in DOMAIN lexed :
    LET first     == first_word(k)
        first_end == lexed[k].start + Len(first)
    IN  \A kind \in DOMAIN TWO_WORD_KEYWORDS :
          eq_ignore_ascii_case(first, as_str[kind]) =>
            LET expected == TWO_WORD_KEYWORDS[kind].expected
                follows  == \E p \in first_end..Len(input) :
                  word_follows(input, first_end, expected, p, p + Len(expected))
            IN  IF follows
                  THEN /\ lexed[k].tok = Keyword(TWO_WORD_KEYWORDS[kind].combined)
                       /\ \E p \in first_end..Len(input) :
                            word_follows(input, first_end, expected, p, lexed[k].end)
                  ELSE /\ lexed[k].tok = Keyword(kind)
                       /\ lexed[k].end = first_end

\* `RoWs` and, two white-space bytes later, `BETWEEN` were lexed as one
\* RowsBetween token
C11_Witness ==
  /\ lex_pc = "done"
  /\ lexed[1].tok = Keyword("RowsBetween")
  /\ SubSeq(input, 1, 4) = <<"R","o","W","s">>
  /\ lexed[1].end = 4 + 2 + 7

\* the combinations FULL and IF enter: the continuation of one word, the
\* continuation of two words, and the kinds they give
combination_policy ==
  [Full |-> [direct |-> <<"J","O","I","N">>, direct_combined |-> "FullJoin",
             middle |-> <<"O","U","T","E","R">>, final |-> <<"J","O","I","N">>,
             full_combined |-> "FullJoin"],
   If   |-> [direct |-> <<"E","X","I","S","T","S">>, direct_combined |-> "IfExists",
             middle |-> <<"N","O","T">>, final |-> <<"E","X","I","S","T","S">>,
             full_combined |-> "IfNotExists"]]

\* C12: a token that starts with FULL or IF is FullJoin / IfExists, ending at
\* the end of JOIN / EXISTS, when that word follows the first one; else it is
\* FullJoin / IfNotExists, ending at the end of the third word, when OUTER
\* JOIN / NOT EXISTS follow; else (the middle word without the final one, or
\* nothing that matches) it is the standalone Full / If and ends directly
\* after the first word. Words are whole words compared without case, and
\* white space of any length may separate them.
C12_ThreeWordPolicy ==
  \A k \in DOMAIN lexed :
    LET first     == first_word(k)
        first_end == lexed[k].start + Len(first)
        ends      == first_end..Len(input)
    IN  \A kind \in DOMAIN combination_policy :
          eq_ignore_ascii_case(first, as_str[kind]) =>
            LET pol == combination_policy[kind]
                direct_at(e) ==
                  \E p \in ends : word_follows(input, first_end, pol.direct, p, e)
                long_at(e) ==
                  \E p \in ends :
                    /\ word_follows(input, first_end, pol.middle, p, p + Len(pol.middle))
                    /\ \E q \in ends :
                         word_follows(input, p + Len(pol.middle), pol.final, q, e)
            IN  IF \E e \in ends : direct_at(e)
                  THEN /\ lexed[k].tok = Keyword(pol.direct_combined)
                       /\ direct_at(lexed[k].end)
                ELSE IF \E e \in ends : long_at(e)
                  THEN /\ lexed[k].tok = Keyword(pol.full_combined)
                       /\ long_at(lexed[k].end)
                ELSE /\ lexed[k].tok = Keyword(kind)
                     /\ lexed[k].end = first_end

\* `IF NOT x`, the middle word without the final one, was lexed to the end:
\* If and Not stayed keywords of their own
C12_Witness ==
  /\ lex_pc = "done"
  /\ Len(lexed) = 5
  /\ lexed[1].tok = Keyword("If")
  /\ lexed[1].end = 2
  /\ lexed[3].tok = Keyword("Not")
  /\ lexed[5].tok = Textual("Identifier", <<"x">>)

\* the two bytes c1 c2 stand at offset p of b
pair_at(b, p, c1, c2) == p + 2 <= Len(b) /\ b[p + 1] = c1 /\ b[p + 2] = c2

\* the length of the run of single quotes that starts at offset p
quote_run(b, p) ==
  CHOOSE n \in 0..(Len(b) - p) :
    /\ \A q \in 1..n : b[p + q] = "'"
    /\ p + n < Len(b) => b[p + n + 1] # "'"

\* no quote closes the string literal opened at offset s: behind the opening
\* quote every run of quotes has even length, so it is escaped quotes only
unterminated_string(b, s) ==
  \A p \in (s + 1)..(Len(b) - 1) :
    (b[p + 1] = "'" /\ (p = s + 1 \/ b[p] # "'")) => quote_run(b, p) % 2 = 0

\* entry k of lexed is one token of the given kind whose content is
\* everything behind the opening delimiter, and the cursor is at the end
runs_to_end(k, type, opener_len) ==
  /\ lexed[k].tok =
       Textual(type, SubSeq(input, lexed[k].start + opener_len + 1, Len(input)))
  /\ lexed[k].end = Len(input)

\* C13: a string literal, a quoted identifier or a block comment that is never
\* closed is lexed as one token of that kind whose content runs to the end of
\* the input; a `{{` that no `}}` follows gives the Operator `{` alone, and
\* the cursor is set to the byte directly after that first brace.
C13_UnterminatedConstructs ==
  \A k \in DOMAIN lexed :
    LET s == lexed[k].start
    IN  /\ (input[s + 1] = "'" /\ unterminated_string(input, s))
             => runs_to_end(k, "StringLiteral", 1)
        /\ (input[s + 1] = "\"" /\ \A p \in (s + 1)..(Len(input) - 1) : input[p + 1] # "\"")
             => runs_to_end(k, "QuotedIdentifier", 1)
        /\ (pair_at(input, s, "/", "*")
              /\ \A p \in (s + 2)..Len(input) : ~pair_at(input, p, "*", "/"))
             => runs_to_end(k, "BlockComment", 2)
        /\ (pair_at(input, s, "{", "{")
              /\ \A p \in (s + 2)..Len(input) : ~pair_at(input, p, "}", "}"))
             => /\ lexed[k].tok = Textual("Operator", <<"{">>)
                /\ lexed[k].end = s + 1

\* the text {{"x was lexed to the end: the first brace alone became an
\* Operator, the second brace was lexed next, and the quoted identifier that
\* is never closed took the rest
C13_Witness ==
  /\ lex_pc = "done"
  /\ input = <<"{", "{", "\"", "x">>
  /\ Len(lexed) = 3
  /\ lexed[1].tok = Textual("Operator", <<"{">>)
  /\ lexed[2].start = 1
  /\ lexed[3].tok = Textual("QuotedIdentifier", <<"x">>)

\* C15: on an input of ASCII bytes, every call of next_token with the cursor
\* before the end of the input returns a token and leaves the cursor strictly
\* further on and not behind the end of the input; so tokenize terminates.
\* This covers the `{{` that is never closed, where the cursor is set back.
C15_LexerProgress ==
  [][(lex_pc = "scan" /\ pos < Len(input) /\ is_ascii(input))
       => /\ lex_pc' = "scan"
          /\ Len(lexed') = Len(lexed) + 1
          /\ lexed'[Len(lexed')].tok.type \in TokenTypes
          /\ pos' > pos
          /\ pos' <= Len(input)]_vars

\* an ASCII text that starts with a `{{` that is never closed was lexed to the
\* end: the cursor was set back behind the first brace and moved on from there
C15_Witness ==
  /\ lex_pc = "done"
  /\ is_ascii(input)
  /\ pair_at(input, 0, "{", "{")
  /\ \A p \in 2..Len(input) : ~pair_at(input, p, "}", "}")
  /\ Len(lexed) >= 3
  /\ lexed[1].end = 1
  /\ lexed[2].start = 1
  /\ lexed[Len(lexed)].end = Len(input)

\* the single-word keywords whose canonical spelling is `word` in some casing
spelled_by(word) ==
  {k \in SingleKeywords : to_lowercase(as_str[k]) = to_lowercase(word)}

\* what lookup_keyword returned is what its contract says of the argument
lookup_contract ==
  (callee = "lookup_keyword" /\ ret # NoReturn) =>
    /\ \A k \in spelled_by(arg) : ret = k
    /\ spelled_by(arg) = {} => ret = NoKeyword
    /\ (\E m \in MultiKeywords : to_lowercase(as_str[m]) = to_lowercase(arg))
         => ret = NoKeyword
    /\ (\E k \in SingleKeywords, x \in Suffixes :
          arg = as_str[k] \o x /\ spelled_by(arg) = {}) => ret = NoKeyword

\* C14: lookup_keyword is total and case-insensitive. Every call returns; it
\* returns the single-word keyword whose canonical spelling equals the word
\* when ASCII case is ignored, and None for every other string: for the
\* spelling of every multi-word keyword, and for a keyword's spelling with
\* characters appended that is not the spelling of another keyword.
C14_LookupKeyword ==
  /\ []lookup_contract
  /\ (callee = "lookup_keyword") ~> (ret # NoReturn)

\* lookup_keyword has returned None for `ORDER BY` in some casing
C14_Witness ==
  /\ callee = "lookup_keyword"
  /\ to_lowercase(arg) = <<"o","r","d","e","r"," ","b","y">>
  /\ ret = NoKeyword

\* what from_name returned is the style whose name, as Display writes it, is
\* the argument, and Basic when there is no such style
from_name_contract ==
  (callee = "from_name" /\ ret # NoReturn) =>
    /\ \A s \in DOMAIN style_name : arg = style_name[s] => ret = s
    /\ (\A s \in DOMAIN style_name : arg # style_name[s]) => ret = "Basic"

\* C16: FormatStyle::from_name is total. Every call returns; the exact
\* lowercase names basic, streamline, aligned and dataops give their style,
\* and every other string (empty, unknown, in another casing) gives Basic.
C16_FromNameTotal ==
  /\ []from_name_contract
  /\ (callee = "from_name") ~> (ret # NoReturn)

\* from_name has returned Basic for `ALIGNED`, a style's name in upper case
C16_Witness ==
  /\ callee = "from_name"
  /\ arg = <<"A","L","I","G","N","E","D">>
  /\ ret = "Basic"

\* the block-indented engines
BlockStyles == {"Basic", "Streamline", "Dataops"}

\* the number of subquery parentheses that are open
subquery_frames(markers) == Cardinality({k \in DOMAIN markers : markers[k]})

\* a line break and `level` indent units
line_at(level) == <<"\n">> \o Spaces(indent_width(style) * level)

\* the token under the cursor is a clause-starter keyword that is laid out as
\* one: it follows no dot, it is outside every inline parenthesis and it does
\* not start a statement
at_clause_keyword ==
  /\ pc = "format"
  /\ i < Len(filtered)
  /\ style \in BlockStyles
  /\ current.type = "Keyword"
  /\ is_clause_starter(current.kw)
  /\ prev_token.type # "Dot"
  /\ inline_paren_depth = 0
  /\ ~is_first_token

\* the token under the cursor is the open paren of a subquery
at_subquery_open ==
  /\ pc = "format"
  /\ i < Len(filtered)
  /\ current.type = "OpenParen"
  /\ token_at(i + 1).type = "Keyword"
  /\ is_clause_starter(token_at(i + 1).kw)

\* the token under the cursor is the close paren of a subquery
at_subquery_close ==
  /\ pc = "format"
  /\ i < Len(filtered)
  /\ current.type = "CloseParen"
  /\ paren_depth > 0
  /\ is_subquery_paren # <<>>
  /\ is_subquery_paren[Len(is_subquery_paren)]

\* in a query with b open subquery parentheses the clause keywords are
\* written at indent level b, and the open paren of a subquery adds one to b
clause_keywords_nest ==
  /\ at_clause_keyword =>
       output' = output \o line_at(subquery_frames(is_subquery_paren))
                        \o keyword_str(Self, current.kw)
  /\ (at_subquery_open /\ style \in BlockStyles) =>
       subquery_frames(is_subquery_paren') = subquery_frames(is_subquery_paren) + 1

\* the close paren of a subquery is written on a new line at indent level
\* b + 1 - `shift`, where b is the level of the enclosing query's clause keywords
close_paren_at(shift) ==
  (at_subquery_close /\ style \in BlockStyles) =>
    LET b == subquery_frames(is_subquery_paren')
    IN  /\ b = subquery_frames(is_subquery_paren) - 1
        /\ output' = output \o line_at(b + 1 - shift) \o <<")">>

\* C17, as stated: in the block-indented styles a subquery opened in a query
\* whose clause keywords are written at indent level b has its clause keywords
\* written at level b + 1 and its closing paren on a new line at level b.
C17_CloseParenAtOuterLevel ==
  [][clause_keywords_nest /\ close_paren_at(1)]_vars

\* C17, amended: the subquery's clause keywords are written at level b + 1,
\* and its closing paren is written on a new line at level b + 1 as well, the
\* level of the subquery's own clause keywords.
C17_CloseParenAtSubqueryLevel ==
  [][clause_keywords_nest /\ close_paren_at(0)]_vars

\* an outer query (level 0) holds a subquery whose close paren has just been
\* written: the output ends with a line of one indent unit and `)`
C17_Witness ==
  /\ pc = "format"
  /\ style \in BlockStyles
  /\ prev_token.type = "CloseParen"
  /\ is_subquery_paren = <<>>
  /\ Len(output) > 20
  /\ SubSeq(output, 1, 6) = keyword_str(Self, "Select")
  /\ SubSeq(output, Len(output) - 5, Len(output)) = line_at(1) \o <<")">>

\* what a token does to the marker stack and to paren_depth: an open paren
\* pushes one marker and adds one, a close paren at a depth above zero pops
\* one marker and subtracts one, every other token leaves both alone
markers_follow_parens ==
  (pc = "format" /\ i < Len(filtered)) =>
    CASE current.type = "OpenParen" ->
           /\ Len(is_subquery_paren') = Len(is_subquery_paren) + 1
           /\ SubSeq(is_subquery_paren', 1, Len(is_subquery_paren)) = is_subquery_paren
           /\ paren_depth' = paren_depth + 1
      [] current.type = "CloseParen" /\ paren_depth > 0 ->
           /\ Len(is_subquery_paren) > 0
           /\ is_subquery_paren' =
                SubSeq(is_subquery_paren, 1, Len(is_subquery_paren) - 1)
           /\ paren_depth' = paren_depth - 1
      [] OTHER ->
           /\ is_subquery_paren' = is_subquery_paren
           /\ paren_depth' = paren_depth

\* C18: in every engine, after every processed token, the length of the
\* marker stack is_subquery_paren equals paren_depth: an open paren pushes one
\* marker and increments the depth, a close paren at a depth above zero pops
\* one marker and decrements it, and no other token changes either.
C18_MarkerStackMatchesDepth ==
  /\ [](Len(is_subquery_paren) = paren_depth)
  /\ [][markers_follow_parens]_vars

\* two parentheses were opened, a subquery and an inline one, and the inner
\* one has been closed again
C18_Witness ==
  /\ pc = "format"
  /\ prev_token.type = "CloseParen"
  /\ paren_depth = 1
  /\ is_subquery_paren = <<TRUE>>
  /\ i >= 4

\* C19: in every engine the marker pushed for an open paren is true exactly
\* when the next token of the filtered sequence is a keyword that is a clause
\* starter; and no step changes a marker that is on the stack: it stays as it
\* was pushed until the matching close paren pops it.
C19_MarkerDecidedAtOpen ==
  [][(pc = "format" /\ i < Len(filtered)) =>
       /\ current.type = "OpenParen" =>
            /\ Len(is_subquery_paren') = Len(is_subquery_paren) + 1
            /\ is_subquery_paren'[Len(is_subquery_paren')]
                 <=> (/\ i + 1 < Len(filtered)
                      /\ filtered[i + 2].type = "Keyword"
                      /\ is_clause_starter(filtered[i + 2].kw))
       /\ \A k \in DOMAIN is_subquery_paren \cap DOMAIN is_subquery_paren' :
            is_subquery_paren'[k] = is_subquery_paren[k]]_vars

\* an inline paren (a paren follows it) and inside it a subquery paren
\* (SELECT follows it) are open, and the subquery's FROM has been processed
\* since: both markers are as they were pushed
C19_Witness ==
  /\ pc = "format"
  /\ is_subquery_paren = <<FALSE, TRUE>>
  /\ prev_token = Keyword("From")
  /\ \E k \in 1..(i - 2) :
       /\ filtered[k].type = "OpenParen"
       /\ filtered[k + 1].type = "OpenParen"
       /\ filtered[k + 2] = Keyword("Select")

\* the formatter after the first k tokens of the filtered sequence
RECURSIVE formatter_after(_)
formatter_after(k) ==
  IF k = 0 THEN new(style, uppercase)
  ELSE LET f     == formatter_after(k - 1)
           token == filtered[k]
           prev  == IF k = 1 THEN NoToken ELSE filtered[k - 1]
       IN  CASE token.type = "Keyword"      -> format_keyword_arm(f, token, prev)
             [] token.type = "Comma"        -> format_comma(f)
             [] token.type = "OpenParen"    -> format_open_paren(f, token_at(k), prev)
             [] token.type = "CloseParen"   -> format_close_paren(f)
             [] token.type = "Semicolon"    -> format_semicolon(f)
             [] token.type = "LineComment"  -> format_line_comment(f, token)
             [] token.type = "BlockComment" -> format_block_comment(f, token, prev)
             [] token.type = "Dot"          -> format_dot(f)
             [] OTHER                       -> format_value_arm(f, token, prev)

\* the index of the open paren that the close paren at index k closes
matching_open(k) ==
  CHOOSE j \in 1..(k - 1) :
    /\ filtered[j].type = "OpenParen"
    /\ formatter_after(j - 1).paren_depth = formatter_after(k).paren_depth
    /\ \A m \in j..(k - 1) :
         formatter_after(m).paren_depth > formatter_after(k).paren_depth

\* the token processed last is the close paren of a subquery
subquery_closed ==
  /\ pc = "format"
  /\ i >= 1
  /\ filtered[i].type = "CloseParen"
  /\ formatter_after(i - 1).paren_depth > 0
  /\ top_marker(formatter_after(i - 1))

\* C20: in the block-indented styles, when the close paren of a subquery has
\* been processed, the clause context and the indent depth are the ones the
\* formatter had just before it processed the matching open paren.
C20_CloseRestoresContext ==
  (subquery_closed /\ style \in BlockStyles) =>
    LET before == formatter_after(matching_open(i) - 1)
    IN  /\ clause_context = before.clause_context
        /\ indent_depth = before.indent_depth

\* C21: in the column-aligned style the base-column stack has one entry per
\* true marker on the marker stack, and when the close paren of a subquery has
\* been processed base_col and clause_context are the ones the formatter had
\* when it processed the matching open paren, whatever happened in between
\* (a semicolon that set base_col to 0 included).
C21_BaseStackRestores ==
  style = "Aligned" =>
    /\ Len(base_stack) = subquery_frames(is_subquery_paren)
    /\ subquery_closed =>
         LET before == formatter_after(matching_open(i) - 1)
         IN  /\ base_col = before.base_col
             /\ clause_context = before.clause_context

\* the column-aligned engine has closed a subquery that was opened at base
\* column 2 in a FROM clause and that holds a semicolon
C21_Witness ==
  /\ style = "Aligned"
  /\ subquery_closed
  /\ base_col = SubqueryIndent
  /\ clause_context = "From"
  /\ \E k \in matching_open(i)..i : filtered[k].type = "Semicolon"

\* a token of the given type has been processed; on_entry is the formatter as
\* it was when that token's handler was entered
processed(type) == pc = "format" /\ i >= 1 /\ filtered[i].type = type

on_entry == formatter_after(i - 1)

\* C22: in every engine, when a semicolon has been processed, the clause
\* context is None, the indentation baseline (indent_depth in the
\* block-indented engines, base_col in the column-aligned one) is 0, the
\* DDL-starter flag is false and the first-token flag is true, while
\* paren_depth, the marker stack and the inline-paren counter are as before.
C22_SemicolonResets ==
  processed("Semicolon") =>
    /\ clause_context = "None"
    /\ style \in BlockStyles => indent_depth = 0
    /\ style = "Aligned" => base_col = 0
    /\ ~prev_was_ddl_starter
    /\ is_first_token
    /\ paren_depth = on_entry.paren_depth
    /\ is_subquery_paren = on_entry.is_subquery_paren
    /\ inline_paren_depth = on_entry.inline_paren_depth

\* a semicolon has been processed inside a subquery, in a clause, with the
\* baseline above 0
C22_Witness ==
  /\ processed("Semicolon")
  /\ on_entry.clause_context # "None"
  /\ on_entry.indent_depth + on_entry.base_col > 0
  /\ paren_depth > 0
  /\ TRUE \in {is_subquery_paren[k] : k \in DOMAIN is_subquery_paren}

\* one turn of the formatting loop on `token`, with `next` the token after it
\* and `prev` the token before it
apply_token(f, token, next, prev) ==
  CASE token.type = "Keyword"      -> format_keyword_arm(f, token, prev)
    [] token.type = "Comma"        -> format_comma(f)
    [] token.type = "OpenParen"    -> format_open_paren(f, next, prev)
    [] token.type = "CloseParen"   -> format_close_paren(f)
    [] token.type = "Semicolon"    -> format_semicolon(f)
    [] token.type = "LineComment"  -> format_line_comment(f, token)
    [] token.type = "BlockComment" -> format_block_comment(f, token, prev)
    [] token.type = "Dot"          -> format_dot(f)
    [] OTHER                       -> format_value_arm(f, token, prev)

\* the formatter of the run's style and casing after the first k tokens of toks
RECURSIVE formatter_over(_, _)
formatter_over(toks, k) ==
  IF k = 0 THEN new(style, uppercase)
  ELSE apply_token(formatter_over(toks, k - 1), toks[k],
                   IF k < Len(toks) THEN toks[k + 1] ELSE NoToken,
                   IF k = 1 THEN NoToken ELSE toks[k - 1])

\* what format() returns for the token list toks on its own
format_alone(toks) == finalize_output(formatter_over(toks, Len(toks)))

\* the index of the first semicolon of the filtered tokens, 0 when there is none
first_semicolon ==
  IF \E k \in DOMAIN filtered : filtered[k].type = "Semicolon"
    THEN CHOOSE k \in DOMAIN filtered :
           /\ filtered[k].type = "Semicolon"
           /\ \A j \in 1..(k - 1) : filtered[j].type # "Semicolon"
    ELSE 0

statement_before == SubSeq(filtered, 1, first_semicolon - 1)

statement_after == SubSeq(filtered, first_semicolon + 1, Len(filtered))

\* how many of the first k tokens of toks are of the given type
count_of(toks, k, type) == Cardinality({j \in 1..k : toks[j].type = type})

\* every close paren of toks closes an open paren of toks, and none stays open
balanced(toks) ==
  /\ \A k \in 1..Len(toks) :
       count_of(toks, k, "CloseParen") <= count_of(toks, k, "OpenParen")
  /\ count_of(toks, Len(toks), "CloseParen") = count_of(toks, Len(toks), "OpenParen")

\* the input is a statement with balanced parentheses, a semicolon and a
\* second, non-empty statement
two_statements ==
  /\ first_semicolon > 0
  /\ first_semicolon < Len(filtered)
  /\ balanced(statement_before)

\* C23: the result for a statement s1, a semicolon and a statement s2 is the
\* result for s1, `;`, one blank line and the result for s2, whatever token s2
\* begins with.
C23_StatementsIndependent ==
  (pc = "done" /\ two_statements) =>
    result = format_alone(statement_before) \o <<";", "\n", "\n">>
               \o format_alone(statement_after)

\* the tokens the claims call word-like
WordLike == {"Keyword", "Identifier", "NumberLiteral"}

\* what the handler of the token processed last has appended to the output
appended == SubSeq(output, Len(on_entry.output) + 1, Len(output))

\* C24: in every engine, when a word-like token (keyword, identifier, number
\* literal) has been processed right after another word-like token, a space
\* or a line break stands between the two in the output.
C24_WordsSeparated ==
  (pc = "format" /\ i >= 2 /\ filtered[i].type \in WordLike
     /\ filtered[i - 1].type \in WordLike) =>
    \/ <<on_entry.output[Len(on_entry.output)]>> \in TrimWhitespace
    \/ <<appended[1]>> \in TrimWhitespace

\* the indices of the open parens that are open after the first k tokens, the
\* innermost last
RECURSIVE open_parens(_)
open_parens(k) ==
  IF k = 0 THEN <<>>
  ELSE LET below == open_parens(k - 1)
       IN  CASE filtered[k].type = "OpenParen" -> Append(below, k)
             [] filtered[k].type = "CloseParen" /\ below # <<>> ->
                  SubSeq(below, 1, Len(below) - 1)
             [] OTHER -> below

\* the branch of do_format_open_paren that the open paren at index j took
paren_class(j) ==
  CASE top_marker(formatter_after(j)) -> "subquery"
    [] ~top_marker(formatter_after(j))
         /\ formatter_after(j).inline_paren_depth
              = formatter_after(j - 1).inline_paren_depth + 1 -> "inline"
    [] OTHER -> "block"

\* the token processed last is a close paren that closes an open paren
paren_closed ==
  /\ pc = "format"
  /\ i >= 1
  /\ filtered[i].type = "CloseParen"
  /\ open_parens(i - 1) # <<>>

\* the branch of do_format_close_paren that the close paren processed last took
close_branch ==
  CASE top_marker(on_entry) -> "subquery"
    [] ~top_marker(on_entry)
         /\ inline_paren_depth = on_entry.inline_paren_depth - 1 -> "inline"
    [] OTHER -> "block"

\* the open paren that the close paren processed last closes
closed_paren == open_parens(i - 1)[Len(open_parens(i - 1))]

\* C25: in every engine, after every token, inline_paren_depth is the number
\* of open parens that were opened through the inline branch, and a close
\* paren takes the branch (subquery, inline, block) that its own open paren
\* took.
C25_InlineCounterMatches ==
  pc = "format" =>
    /\ inline_paren_depth
         = Cardinality({n \in DOMAIN open_parens(i) :
                          paren_class(open_parens(i)[n]) = "inline"})
    /\ paren_closed => close_branch = paren_class(closed_paren)

\* the close paren of an inline paren has been processed inside an indented
\* DDL block that is still open
C25_Witness ==
  /\ paren_closed
  /\ paren_class(closed_paren) = "inline"
  /\ Len(open_parens(i)) = 1
  /\ paren_class(open_parens(i)[1]) = "block"

\* the token processed last is a DDL starter handled as a keyword: it sets
\* the DDL-starter directive anew
ddl_starter_processed ==
  /\ processed("Keyword")
  /\ is_ddl_starter(filtered[i].kw)
  /\ ~(i >= 2 /\ filtered[i - 1].type = "Dot")

\* C26: in the block-indented styles the DDL-starter directive is one-shot:
\* when the token after a DDL starter has been processed, whatever its kind,
\* the DDL-starter flag is false (unless that token is a DDL starter itself).
C26_DdlStarterOneShot ==
  (pc = "format" /\ i >= 1 /\ style \in BlockStyles
     /\ on_entry.prev_was_ddl_starter /\ ~ddl_starter_processed) =>
    ~prev_was_ddl_starter

\* C27: in every engine a keyword, a comma or a value that is processed while
\* the inline-paren counter is above 0 is written on the current line: its
\* handler appends no line break.
C27_InlineParenKeepsLine ==
  (pc = "format" /\ i >= 1 /\ on_entry.inline_paren_depth > 0
     /\ filtered[i].type \in {"Keyword", "Comma"} \cup ValueTypes) =>
    \A n \in DOMAIN appended : appended[n] # "\n"

\* the clause contexts whose commas separate the items of a list
BreakingContexts == {"Select", "GroupBy", "OrderBy", "Set", "Ddl"}

\* a comma that ends the line and starts the next one at the given depth:
\* leading in Dataops, trailing in Basic and Streamline
comma_line_break(depth) ==
  IF style = "Dataops"
    THEN <<"\n">> \o Spaces(indent_width(style) * depth) \o <<",", " ">>
    ELSE <<",", "\n">> \o Spaces(indent_width(style) * depth)

\* C28: in the block-indented styles a comma ends the line and starts a new
\* one at the current indent depth exactly when the inline-paren counter is 0
\* and the clause context is Select, GroupBy, OrderBy, Set or Ddl; every
\* other comma is written as `,` alone, with no line break.
C28_CommaBreaksInLists ==
  (processed("Comma") /\ style \in BlockStyles) =>
    IF on_entry.inline_paren_depth = 0
         /\ on_entry.clause_context \in BreakingContexts
      THEN appended = comma_line_break(indent_depth)
      ELSE appended = <<",">>

\* a comma of an ORDER BY list has been written as a leading comma at a depth
\* above 0, after a comma inside an inline paren and a comma of a FROM clause
C28_Witness ==
  /\ processed("Comma")
  /\ style = "Dataops"
  /\ on_entry.clause_context = "OrderBy"
  /\ indent_depth > 0
  /\ appended = comma_line_break(indent_depth)
  /\ \E k \in 1..i : /\ filtered[k].type = "Comma"
                     /\ formatter_after(k - 1).inline_paren_depth > 0
  /\ \E k \in 1..i : /\ filtered[k].type = "Comma"
                     /\ formatter_after(k - 1).clause_context = "From"

\* the formatter of style sty, with the run's casing, after the first k
\* tokens of the filtered sequence
RECURSIVE formatter_as(_, _)
formatter_as(sty, k) ==
  IF k = 0 THEN new(sty, uppercase)
  ELSE apply_token(formatter_as(sty, k - 1), filtered[k], token_at(k),
                   IF k = 1 THEN NoToken ELSE filtered[k - 1])

\* the fields of a block-indented formatter that decide its layout
layout_state(f) ==
  <<f.paren_depth, f.is_subquery_paren, f.inline_paren_depth, f.clause_context,
    f.indent_depth, f.needs_indent_newline, f.needs_space_only,
    f.after_comma_newline, f.is_first_token, f.prev_was_ddl_starter>>

\* what the Dataops engine appends for the token that was processed last
appended_by_dataops ==
  SubSeq(formatter_as("Dataops", i).output,
         Len(formatter_as("Dataops", i - 1).output) + 1,
         Len(formatter_as("Dataops", i).output))

\* the token processed last is a comma that separates the items of a list
list_comma_processed ==
  /\ processed("Comma")
  /\ on_entry.inline_paren_depth = 0
  /\ on_entry.clause_context \in BreakingContexts

\* C29: the Basic engine and the Dataops engine, run on the same tokens with
\* the same casing, are in the same layout state after every token, and each
\* token makes them append the same text, except a list comma: Basic appends
\* `,` and the line break, Dataops the line break and `, `.
C29_BasicAndDataopsAgree ==
  (pc = "format" /\ style = "Basic") =>
    /\ layout_state(Self) = layout_state(formatter_as("Dataops", i))
    /\ i >= 1 =>
         IF list_comma_processed
           THEN /\ appended = <<",", "\n">> \o Spaces(indent_width(style) * indent_depth)
                /\ appended_by_dataops
                     = <<"\n">> \o Spaces(indent_width(style) * indent_depth) \o <<",", " ">>
           ELSE appended = appended_by_dataops

\* both engines have processed a list comma and the item after it
C29_Witness ==
  /\ pc = "format"
  /\ style = "Basic"
  /\ i >= 2
  /\ filtered[i - 1].type = "Comma"
  /\ formatter_as("Basic", i - 2).clause_context = "Select"
  /\ formatter_as("Basic", i - 1).after_comma_newline
  /\ filtered[i].type = "Identifier"
  /\ formatter_as("Basic", i - 1).output # formatter_as("Dataops", i - 1).output

\* the open parens of the given class among those open after k tokens
open_of_class(k, class) ==
  {n \in DOMAIN open_parens(k) : paren_class(open_parens(k)[n]) = class}

\* the last characters of s, as many as t has, are t
ends_with(s, t) ==
  /\ Len(s) >= Len(t)
  /\ SubSeq(s, Len(s) - Len(t) + 1, Len(s)) = t

\* C30: in the block-indented styles an open paren that does not start a
\* subquery opens an indented block (`(`, then a line break at the indent
\* depth, the inline-paren counter unchanged) exactly when the clause context
\* is Ddl and every open paren is a subquery paren; the close paren of the
\* block writes a line break at the base indent and `)`; at most one block is
\* open at a time.
C30_DdlBlock ==
  (pc = "format" /\ style \in BlockStyles) =>
    /\ Cardinality(open_of_class(i, "block")) <= 1
    /\ (processed("OpenParen") /\ paren_class(i) # "subquery") =>
         /\ paren_class(i) = "block"
              <=> /\ on_entry.clause_context = "Ddl"
                  /\ open_of_class(i - 1, "subquery") = DOMAIN open_parens(i - 1)
         /\ paren_class(i) = "block" =>
              /\ ends_with(appended, <<"(", "\n">> \o Spaces(indent_width(style) * indent_depth))
              /\ inline_paren_depth = on_entry.inline_paren_depth
    /\ (paren_closed /\ paren_class(closed_paren) = "block") =>
         appended = <<"\n">>
                      \o Spaces(indent_width(style) * Cardinality(open_of_class(i, "subquery")))
                      \o <<")">>

\* the close paren of an indented block inside a subquery has been processed,
\* after an inline paren was opened and closed inside the block
C30_Witness ==
  /\ style \in BlockStyles
  /\ paren_closed
  /\ paren_class(closed_paren) = "block"
  /\ \E k \in (closed_paren + 1)..(i - 1) :
       filtered[k].type = "OpenParen" /\ paren_class(k) = "inline"
  /\ open_of_class(i, "subquery") # {}

\* the token processed last is a close paren that found no paren open
unmatched_close == processed("CloseParen") /\ on_entry.paren_depth = 0

\* C31: in every engine a close paren processed while paren_depth is 0
\* appends `)` and nothing else, and leaves paren_depth, the marker stack, the
\* inline-paren counter, the clause context and the indentation baseline
\* (indent_depth, base_col) as they were.
C31_UnmatchedCloseIsLiteral ==
  unmatched_close =>
    /\ appended = <<")">>
    /\ paren_depth = 0
    /\ is_subquery_paren = on_entry.is_subquery_paren
    /\ inline_paren_depth = on_entry.inline_paren_depth
    /\ clause_context = on_entry.clause_context
    /\ indent_depth = on_entry.indent_depth
    /\ base_col = on_entry.base_col

\* a close paren has been processed at depth 0 in a list clause, after a
\* comma that armed a directive
C31_Witness ==
  /\ unmatched_close
  /\ i >= 2
  /\ filtered[i - 1].type = "Comma"
  /\ on_entry.clause_context \in BreakingContexts
  /\ on_entry.after_comma_newline \/ on_entry.after_leading_comma

\* the token processed last is a comment or a dot
interstitial_processed ==
  processed("LineComment") \/ processed("BlockComment") \/ processed("Dot")

\* C32: in the block-indented styles, when a line comment, a block comment or
\* a dot has been processed, none of the pending directives
\* needs_indent_newline, needs_space_only and after_comma_newline is armed.
C32_InterstitialCancelsPending ==
  (interstitial_processed /\ style \in BlockStyles) =>
    /\ ~needs_indent_newline
    /\ ~needs_space_only
    /\ ~after_comma_newline

\* the text of the comment or dot processed last, without any leading space
interstitial_text ==
  CASE filtered[i].type = "LineComment"  -> <<"-", "-">> \o filtered[i].text
    [] filtered[i].type = "BlockComment" ->
         <<"/", "*">> \o filtered[i].text \o <<"*", "/">>
    [] OTHER                             -> <<".">>

\* C33 as stated: every line comment, block comment and dot that is not the
\* first token of the document is written with exactly one space before it.
C33_OneSpaceBeforeInterstitial ==
  (interstitial_processed /\ i >= 2) => appended = <<" ">> \o interstitial_text

\* the token processed last starts the document or follows a semicolon
starts_statement == i = 1 \/ filtered[i - 1].type = "Semicolon"

\* the token before the one processed last is an open paren, a dot or one of
\* the operators `::`, `->`, `->>`
follows_tight_token ==
  /\ i >= 2
  /\ \/ filtered[i - 1].type \in {"OpenParen", "Dot"}
     \/ /\ filtered[i - 1].type = "Operator"
        /\ filtered[i - 1].text \in {<<":", ":">>, <<"-", ">">>, <<"-", ">", ">">>}

\* C33 (amended): the driver writes a dot with no space before it; a line
\* comment with exactly one space before it unless it starts the document or
\* follows a semicolon; a block comment likewise, and with no space also when
\* it follows an open paren, a dot or an operator `::`, `->`, `->>`.
C33_InterstitialSpacing ==
  interstitial_processed =>
    appended =
      IF \/ filtered[i].type = "Dot"
         \/ starts_statement
         \/ filtered[i].type = "BlockComment" /\ follows_tight_token
        THEN interstitial_text
        ELSE <<" ">> \o interstitial_text

\* a line comment has been written at the start of the second statement,
\* after a block comment behind an open paren, one behind a dot, one behind
\* `::` and one behind an identifier
C33_Witness ==
  /\ processed("LineComment")
  /\ i >= 2
  /\ starts_statement
  /\ \E k \in 2..i : /\ filtered[k].type = "BlockComment"
                     /\ filtered[k - 1].type = "OpenParen"
  /\ \E k \in 2..i : /\ filtered[k].type = "BlockComment"
                     /\ filtered[k - 1].type = "Dot"
  /\ \E k \in 2..i : /\ filtered[k].type = "BlockComment"
                     /\ filtered[k - 1].type = "Operator"
  /\ \E k \in 2..i : /\ filtered[k].type = "BlockComment"
                     /\ filtered[k - 1].type = "Identifier"

\* the token is one of the operators `::`, `->`, `->>`
tight_operator(token) ==
  /\ token.type = "Operator"
  /\ token.text \in {<<":", ":">>, <<"-", ">">>, <<"-", ">", ">">>}

\* C34: in every style no space is written immediately before or immediately
\* after an operator `::`, `->` or `->>`, whatever directive is pending.
C34_NoSpaceAroundTightOperators ==
  (pc = "format" /\ i >= 2) =>
    /\ tight_operator(filtered[i]) =>
         /\ on_entry.output[Len(on_entry.output)] # " "
         /\ appended[1] # " "
    /\ tight_operator(filtered[i - 1]) => appended[1] # " "

\* the column-aligned engine has written the keyword processed last on a line
\* of its own: a clause starter, order modifier, join or sub-clause keyword
\* outside inline parens that is not the AND of a BETWEEN
keyword_line_written ==
  /\ style = "Aligned"
  /\ processed("Keyword")
  /\ filtered[i].kw \in LineKeywords
  /\ ~(i >= 2 /\ filtered[i - 1].type = "Dot")
  /\ on_entry.inline_paren_depth = 0
  /\ ~(filtered[i].kw = "And" /\ on_entry.between_depth > 0)

\* the keyword processed last starts its line
starts_line ==
  \/ on_entry.output = <<>>
  \/ on_entry.output[Len(on_entry.output)] = "\n"
  \/ appended[1] = "\n"

\* the column at which the keyword processed last ends
keyword_end_column == Len(SelectSeq(appended, LAMBDA c : c # "\n"))

\* C35 as stated: every such keyword ends at column base_col + 6, a join
\* keyword at column base_col + 11, whatever its length.
C35_KeywordEndsAtFixedColumn ==
  keyword_line_written =>
    /\ starts_line
    /\ keyword_end_column
         = on_entry.base_col + (IF is_join_keyword(filtered[i].kw) THEN 11 ELSE 6)

\* C35 (amended): a join keyword ends at column base_col + 11 and a keyword
\* of at most six characters at column base_col + 6; a longer keyword that is
\* not a join keyword is written behind base_col + 1 spaces; WITH is written
\* at the start of its line.
C35_KeywordColumns ==
  keyword_line_written =>
    /\ starts_line
    /\ keyword_end_column
         = CASE filtered[i].kw = "With" -> 4
             [] is_join_keyword(filtered[i].kw) -> on_entry.base_col + 11
             [] filtered[i].kw # "With" /\ ~is_join_keyword(filtered[i].kw)
                  /\ Len(as_str[filtered[i].kw]) > 6 ->
                  on_entry.base_col + 1 + Len(as_str[filtered[i].kw])
             [] OTHER -> on_entry.base_col + 6

\* GROUP BY has been written on its line inside a subquery, at base column 2
C35_Witness ==
  /\ keyword_line_written
  /\ filtered[i].kw = "GroupBy"
  /\ on_entry.base_col = 2
  /\ keyword_end_column = 11

\* the comma at index k of a column-aligned run started a new line: it was
\* processed outside inline parens in a list context or in the Cte context
leading_comma_at(k) ==
  /\ k >= 1
  /\ filtered[k].type = "Comma"
  /\ formatter_after(k - 1).inline_paren_depth = 0
  /\ formatter_after(k - 1).clause_context \in BreakingContexts \cup {"Cte"}

\* what the column-aligned comma handler is to append
aligned_comma_text ==
  CASE on_entry.inline_paren_depth > 0 -> <<",">>
    [] on_entry.inline_paren_depth = 0
         /\ on_entry.clause_context \in BreakingContexts ->
         <<"\n">> \o Spaces(on_entry.base_col + 7) \o <<",", " ">>
    [] on_entry.inline_paren_depth = 0 /\ on_entry.clause_context = "Cte" ->
         <<"\n">> \o Spaces(on_entry.base_col) \o <<",", " ">>
    [] OTHER -> <<",">>

\* C36: in the column-aligned style a comma outside inline parens starts a
\* new line of base_col + 7 spaces and `, ` in the contexts Select, GroupBy,
\* OrderBy, Set and Ddl, a new line of base_col spaces and `, ` in the context
\* Cte, and is written inline otherwise; the token that follows a comma that
\* started a new line is written directly behind the `, `, with no further
\* space.
C36_LeadingCommaThenToken ==
  (pc = "format" /\ style = "Aligned" /\ i >= 1) =>
    /\ filtered[i].type = "Comma" => appended = aligned_comma_text
    /\ leading_comma_at(i - 1) => appended[1] \notin {" ", "\n"}

\* how many line breaks s begins with
RECURSIVE leading_breaks(_)
leading_breaks(s) ==
  IF s # <<>> /\ Head(s) = "\n" THEN 1 + leading_breaks(Tail(s)) ELSE 0

\* how many line breaks s ends with
RECURSIVE trailing_breaks(_)
trailing_breaks(s) ==
  IF s # <<>> /\ s[Len(s)] = "\n"
    THEN 1 + trailing_breaks(SubSeq(s, 1, Len(s) - 1))
    ELSE 0

\* the token at index k of a column-aligned run is a UNION or UNION ALL that
\* was handled as a keyword outside inline parens, not as the first token of
\* its statement
union_at(k) ==
  /\ k >= 1
  /\ filtered[k].type = "Keyword"
  /\ filtered[k].kw \in {"Union", "UnionAll"}
  /\ ~(k >= 2 /\ filtered[k - 1].type = "Dot")
  /\ formatter_after(k - 1).inline_paren_depth = 0
  /\ ~formatter_after(k - 1).is_first_token

\* the line breaks that stand directly before the token processed last and
\* its padding
breaks_before == trailing_breaks(on_entry.output) + leading_breaks(appended)

\* C37: in the column-aligned style, outside inline parens, a UNION or UNION
\* ALL that is not the first token of its statement is preceded by exactly
\* one blank line, and so is the token that follows it, whatever its kind.
C37_UnionBlankLines ==
  (pc = "format" /\ style = "Aligned" /\ i >= 1) =>
    /\ union_at(i) => breaks_before = 2
    /\ union_at(i - 1) => breaks_before = 2

\* the token at index k of a column-aligned run is the keyword kw, handled as
\* a keyword outside inline parens
aligned_keyword_at(k, kw) ==
  /\ k >= 1
  /\ filtered[k] = Keyword(kw)
  /\ ~(k >= 2 /\ filtered[k - 1].type = "Dot")
  /\ formatter_after(k - 1).inline_paren_depth = 0

\* what write_keyword_on_newline is to append for a sub-clause keyword
sub_clause_line ==
  (IF on_entry.is_first_token THEN <<>> ELSE <<"\n">>)
    \o Spaces(on_entry.base_col + 6 - Len(as_str[filtered[i].kw]))
    \o keyword_str(Self, filtered[i].kw)

\* the AND processed last is the first AND behind the BETWEEN at index b
first_and_after(b) ==
  /\ aligned_keyword_at(b, "Between")
  /\ b < i
  /\ \A k \in (b + 1)..(i - 1) : ~aligned_keyword_at(k, "And")

\* nothing behind the output of the first b tokens is a line break
same_line_since(b) ==
  \A n \in (Len(formatter_after(b).output) + 1)..Len(output) : output[n] # "\n"

\* C38: in the column-aligned style, outside inline parens, an AND is written
\* inline exactly when between_depth is above 0, which decrements
\* between_depth; a BETWEEN increments it; so the first AND after a BETWEEN
\* stays on the line of the BETWEEN, and another AND, an ON and an OR start a
\* new padded line.
C38_BetweenAnd ==
  (pc = "format" /\ style = "Aligned" /\ i >= 1) =>
    /\ aligned_keyword_at(i, "And") =>
         IF on_entry.between_depth > 0
           THEN /\ between_depth = on_entry.between_depth - 1
                /\ \A n \in DOMAIN appended : appended[n] # "\n"
           ELSE /\ between_depth = on_entry.between_depth
                /\ appended = sub_clause_line
    /\ aligned_keyword_at(i, "Between") =>
         between_depth = on_entry.between_depth + 1
    /\ (aligned_keyword_at(i, "On") \/ aligned_keyword_at(i, "Or")) =>
         appended = sub_clause_line
    /\ aligned_keyword_at(i, "And") =>
         \A b \in 1..(i - 1) : first_and_after(b) => same_line_since(b)

\* how many of the three pending directives of a block-indented engine are armed
pending_flags ==
  Cardinality({n \in 1..3 :
                 <<needs_indent_newline, needs_space_only, after_comma_newline>>[n]})

\* C39: in the block-indented engines, after every processed token, at most
\* one of needs_indent_newline, needs_space_only and after_comma_newline is
\* true.
C39_AtMostOnePending ==
  (pc = "format" /\ style \in BlockStyles) => pending_flags <= 1

\* a token found one directive armed and left a different one armed: the comma
\* of a select list right behind SELECT, or a clause keyword right behind a
\* list comma
C39_Witness ==
  /\ pc = "format"
  /\ style \in BlockStyles
  /\ i >= 1
  /\ pending_flags = 1
  /\ \/ on_entry.needs_indent_newline /\ after_comma_newline
     \/ on_entry.after_comma_newline /\ (needs_indent_newline \/ needs_space_only)
====
